---- MODULE Spec2Model ----
(***************************************************************************)
(* ElkDB storage engine: copy-on-write B+ tree over a memory-mapped file,  *)
(* a durable free list and a commit through one meta-page.                 *)
(*                                                                         *)
(* Byte strings (keys, values) are run-length strings: the byte c repeated *)
(* n times; the empty string has n = 0.  Pages are records of their        *)
(* decoded fields; their sizes are computed as the page codec computes     *)
(* them.  The meta-page is a sequence of bytes.                            *)
(***************************************************************************)
EXTENDS Integers, Sequences, FiniteSets, TLC

(* ---------------- bounds of the model ---------------- *)
\* number of distinct key characters the environment uses
MaxKeyChar == 3
\* the file never grows past this many pages (operations stop being issued)
MaxPages == 7
\* the same, for the load of long keys
MaxBulkPages == 13
\* the number of calls of the load
MaxCalls == 10
\* the number of keys that are stored and deleted over and over
MaxCycleKeys == 2
\* calls stop being issued when the file has this many pages
MaxCyclePages == 16
\* the pages of the files Open is tried on, and the pointers of their meta-page
MaxOpenPages == 3

(* ---------------- disk constants ---------------- *)
HEADER == 4
POINTER_SIZE == 8
OFFSET_SIZE == 2
KEY_LENGTH_SIZE == 2
VAL_LENGTH_SIZE == 2
BTREE_MAX_NODE_SIZE == 4096
BTREE_MAX_KEY_SIZE == 1000
BTREE_MAX_VAL_SIZE == 3000
n_keys == 2
BTREE_NODE == 1
BTREE_LEAF == 2
BNODE_FREE_LIST == 3
FREE_LIST_HEADER == 4 + 8 + 8
FREE_LIST_CAP == (BTREE_MAX_NODE_SIZE - FREE_LIST_HEADER) \div 8
MODE_UPSERT == 0
MODE_UPDATE_ONLY == 1
MODE_INSERT_ONLY == 2
DB_SIG == <<69, 76, 75, 68, 66>>
DB_SIG_SIZE == 16
METAPAGE_SIZE == 40
INITIAL_MMAP_SIZE == 67108864

U16(x) == x % 65536
Min(a, b) == IF a < b THEN a ELSE b
Max(a, b) == IF a > b THEN a ELSE b

(* ---------------- byte strings ---------------- *)
\* n bytes, of which the first kept are the byte c; kept < n only for a string
\* read across the end of its page (see Clip), whose other bytes are the first
\* bytes of the page that follows in the mapping
Str(c, n) == IF n = 0 THEN [c |-> 0, n |-> 0, kept |-> 0] ELSE [c |-> c, n |-> n, kept |-> n]

\* the byte at position i (from 1); -1 past the end.  The bytes past kept are
\* page-header bytes, which are below every byte the environment puts in a key
ByteAt(a, i) == IF i <= a.kept THEN a.c ELSE IF i <= a.n THEN 0 ELSE -1

\* the positions at which two strings can first differ
DiffAt(a, b) == {i \in {1, a.kept + 1, b.kept + 1, a.n + 1, b.n + 1} : ByteAt(a, i) # ByteAt(b, i)}

\* bytes.Compare: -1, 0 or 1
BytesCompare(a, b) ==
    IF DiffAt(a, b) = {} THEN 0
    ELSE LET i == CHOOSE j \in DiffAt(a, b) : \A k \in DiffAt(a, b) : j <= k
         IN  IF ByteAt(a, i) < ByteAt(b, i) THEN -1 ELSE 1

BytesEqual(a, b) == BytesCompare(a, b) = 0

(* ---------------- page codec (tree pages) ---------------- *)
\* a tree page: its type and its entries (pointer, key, value)
Entry(p, k, v) == [ptr |-> p, key |-> k, val |-> v]
\* BNode{}: the empty result of a no-op
NoNode == [btype |-> 0, ents |-> <<>>, none |-> TRUE]
IsNone(node) == "none" \in DOMAIN node
\* a page of zero bytes (a slot the file holds but nothing wrote)
ZeroPage == [btype |-> 0, ents |-> <<>>]

btype(node) == node.btype
nkeys(node) == Len(node.ents)
getPointer(node, idx) == node.ents[idx + 1].ptr
getKey(node, idx) == node.ents[idx + 1].key
getVal(node, idx) == node.ents[idx + 1].val

RECURSIVE getOffset(_, _)
getOffset(node, idx) ==
    IF idx = 0 THEN 0
    ELSE U16(getOffset(node, idx - 1) + KEY_LENGTH_SIZE + VAL_LENGTH_SIZE
             + node.ents[idx].key.n + node.ents[idx].val.n)

kvLocation(node, idx) ==
    U16(HEADER + (POINTER_SIZE * nkeys(node)) + (OFFSET_SIZE * nkeys(node))
        + getOffset(node, idx))

nbytes(node) == kvLocation(node, nkeys(node))

\* setHeader on a fresh buffer: n blank entries
BlankEntry == [ptr |-> 0, key |-> Str(0, 0), val |-> Str(0, 0)]
setHeader(t, n) == [btype |-> t, ents |-> [i \in 1..n |-> BlankEntry]]

setPointer(node, idx, p) == [node EXCEPT !.ents[idx + 1].ptr = p]

\* copy(dst, src) into the room left in a buffer: the bytes that do not fit are
\* not written, and a later read of the string runs past the end of the page
ClipStr(s, room) ==
    IF room >= s.kept THEN s
    ELSE IF room <= 0 THEN [s EXCEPT !.c = 0, !.kept = 0]
    ELSE [s EXCEPT !.kept = room]

\* what a buffer of cap bytes holds of the page built into it; room is what is
\* left of the buffer after the two length fields of an entry
ClipEntry(e, room) ==
    [e EXCEPT !.key = ClipStr(@, room), !.val = ClipStr(@, room - e.key.n)]

Clip(node, cap) ==
    IF nbytes(node) <= cap THEN node
    ELSE [node EXCEPT !.ents =
            [i \in 1..Len(node.ents) |->
                ClipEntry(node.ents[i],
                          cap - (kvLocation(node, i - 1) + KEY_LENGTH_SIZE + VAL_LENGTH_SIZE))]]

\* nodeAppendKV slices the buffer at the end of the key it wrote: past the end
\* of the buffer that is a run-time panic
appendKVPanics(node, idx, cap) == kvLocation(node, idx + 1) > cap

(* ---------------- pager callbacks ---------------- *)
\* the pending-free marker of the update map (a nil buffer)
Nil == [btype |-> -1]

InUpdates(st, p) == p \in DOMAIN st.updates

\* file pages covered by the mmap chunks, walked as pageGetMapped walks them
RECURSIVE ChunkEnd(_, _)
ChunkEnd(chunks, k) ==
    IF k = 0 THEN 0 ELSE ChunkEnd(chunks, k - 1) + (chunks[k] \div BTREE_MAX_NODE_SIZE)

MappedPointer(st, p) == \E k \in 1..Len(st.chunks) : p < ChunkEnd(st.chunks, k)

pageGetMapped(st, p) ==
    IF p \in DOMAIN st.mapped THEN st.mapped[p] ELSE ZeroPage

\* a pageGet that reads the mapped file whatever is pending
pageGet_mapped(st, p) == pageGetMapped(st, p)

pageGet(st, p) ==
    IF InUpdates(st, p) THEN st.updates[p] ELSE pageGetMapped(st, p)

\* the assertions of pageGet and pageGetMapped: "page is null", "bad pointer"
pageGetPanics(st, p) ==
    IF InUpdates(st, p) THEN st.updates[p] = Nil ELSE ~MappedPointer(st, p)

PanicIf(st, cond) == IF cond THEN [st EXCEPT !.panic = TRUE] ELSE st

\* the assertions of a pageGet(p); nullget remembers a 'page is null'
Touch(st, p) ==
    IF pageGetPanics(st, p)
    THEN [st EXCEPT !.panic = TRUE,
                    !.nullget = @ \/ (InUpdates(st, p) /\ st.updates[p] = Nil)]
    ELSE st

\* a pageDel that forgets the page
pageDel_leak(st, p) == st

\* pageDel; baddel remembers a del of a pointer that is not an allocated page:
\* one deleted already in this transaction or one no page was ever put at
pageDel(st, p) ==
    [st EXCEPT !.updates = (p :> Nil) @@ st.updates,
               !.baddel = @ \/ (IF InUpdates(st, p) THEN st.updates[p] = Nil
                                ELSE ~(1 <= p /\ p < st.flushed))]

pageUse(st, p, node) == [st EXCEPT !.updates = (p :> node) @@ st.updates]

\* a pageAppend that counts its page as one taken from the free list
pageAppend_countsFree(st, node) ==
    [st  |-> [st EXCEPT !.n_free = st.n_free + 1, !.n_append = st.n_append + 1,
                        !.updates = (st.flushed + st.n_append :> node) @@ st.updates],
     ptr |-> st.flushed + st.n_append]

\* badnew remembers an allocation that returned 0 or a pointer of the pending set
pageAppend(st, node) ==
    LET pointer == st.flushed + st.n_append
    IN  [st  |-> [st EXCEPT !.n_append = st.n_append + 1,
                            !.updates = (pointer :> node) @@ st.updates,
                            !.badnew = @ \/ pointer = 0 \/ InUpdates(st, pointer)],
         ptr |-> pointer]

(* ---------------- free list: pages and reads ---------------- *)
\* a free-list page: its pointers (bottom first), total and next
FLNode(ps, tot, nxt) == [btype |-> BNODE_FREE_LIST, ptrs |-> ps, total |-> tot, next |-> nxt]
freeListNodeSize(node) == IF btype(node) = BNODE_FREE_LIST THEN Len(node.ptrs) ELSE 0
freeListNext(node) == IF btype(node) = BNODE_FREE_LIST THEN node.next ELSE 0
freelistNodeGetPointer(node, i) == node.ptrs[i + 1]
freeListTotal(node) == IF btype(node) = BNODE_FREE_LIST THEN node.total ELSE 0

ListLen(st) == IF st.fhead = 0 THEN 0 ELSE freeListTotal(pageGet(st, st.fhead))

\* the n-th pointer from the top of the list
RECURSIVE flGetFrom(_, _, _)
flGetFrom(st, head, n) ==
    LET node == pageGet(st, head)
        size == freeListNodeSize(node)
    IN  IF head = 0 \/ btype(node) # BNODE_FREE_LIST THEN 0
        ELSE IF n < size THEN freelistNodeGetPointer(node, size - n - 1)
        ELSE flGetFrom(st, freeListNext(node), n - size)

flGet(st, n) == flGetFrom(st, st.fhead, n)

\* a pageNew that takes one pointer more than the list holds
pageNew_offByOne(st, node) ==
    IF st.n_free <= ListLen(st)
    THEN [st  |-> [st EXCEPT !.n_free = st.n_free + 1,
                            !.updates = (flGet(st, st.n_free) :> node) @@ st.updates],
          ptr |-> flGet(st, st.n_free)]
    ELSE [st  |-> [st EXCEPT !.n_append = st.n_append + 1,
                            !.updates = (st.flushed + st.n_append :> node) @@ st.updates],
          ptr |-> st.flushed + st.n_append]

\* a pageNew that never looks at the free list
pageNew_fresh(st, node) ==
    [st  |-> [st EXCEPT !.n_append = st.n_append + 1,
                        !.updates = (st.flushed + st.n_append :> node) @@ st.updates],
     ptr |-> st.flushed + st.n_append]

\* a pageNew that appends every page at the end of the flushed pages
pageNew_atFlushed(st, node) ==
    IF st.n_free < ListLen(st)
    THEN LET pointer == flGet(st, st.n_free)
         IN  [st  |-> [st EXCEPT !.n_free = st.n_free + 1,
                                 !.updates = (pointer :> node) @@ st.updates,
                                 !.badnew = @ \/ pointer = 0 \/ InUpdates(st, pointer)],
              ptr |-> pointer]
    ELSE LET pointer == st.flushed
         IN  [st  |-> [st EXCEPT !.n_append = st.n_append + 1,
                                 !.updates = (pointer :> node) @@ st.updates,
                                 !.badnew = @ \/ pointer = 0 \/ InUpdates(st, pointer)],
              ptr |-> pointer]

pageNew(st, node) ==
    IF st.n_free < ListLen(st)
    THEN LET pointer == flGet(st, st.n_free)
         IN  [st  |-> [st EXCEPT !.n_free = st.n_free + 1,
                                 !.updates = (pointer :> node) @@ st.updates,
                                 !.badnew = @ \/ pointer = 0 \/ InUpdates(st, pointer)],
              ptr |-> pointer]
    ELSE LET pointer == st.flushed + st.n_append
         IN  [st  |-> [st EXCEPT !.n_append = st.n_append + 1,
                                 !.updates = (pointer :> node) @@ st.updates,
                                 !.badnew = @ \/ pointer = 0 \/ InUpdates(st, pointer)],
              ptr |-> pointer]

(* ---------------- B+ tree: search ---------------- *)
RECURSIVE lookupFrom(_, _, _, _)
lookupFrom(node, key, i, found) ==
    IF i >= nkeys(node) THEN found
    ELSE LET cmp == BytesCompare(getKey(node, i), key)
             f   == IF cmp <= 0 THEN i ELSE found
         IN  IF cmp >= 0 THEN f ELSE lookupFrom(node, key, i + 1, f)

\* a nodeLookupLE that compares the first key too
nodeLookupLE_fromZero(node, key) == lookupFrom(node, key, 0, 0)

nodeLookupLE(node, key) == lookupFrom(node, key, 1, 0)

NotFound == [val |-> Str(0, 0), found |-> FALSE]

RECURSIVE nodeGetKey(_, _, _)
nodeGetKey(st, node, key) ==
    LET idx == nodeLookupLE(node, key)
    IN  IF btype(node) = BTREE_LEAF
        THEN IF nkeys(node) > idx /\ BytesEqual(key, getKey(node, idx))
             THEN [val |-> getVal(node, idx), found |-> TRUE]
             ELSE NotFound
        ELSE IF btype(node) = BTREE_NODE /\ nkeys(node) > idx
        THEN nodeGetKey(st, pageGet(st, getPointer(node, idx)), key)
        ELSE NotFound

TreeGet(st, key) ==
    IF st.root = 0 THEN NotFound ELSE nodeGetKey(st, pageGet(st, st.root), key)

(* ---------------- B+ tree: building pages ---------------- *)
nodeAppendKV(newNode, idx, ptr, key, val) ==
    [newNode EXCEPT !.ents[idx + 1] = Entry(ptr, key, val)]

nodeAppendRange(newNode, oldNode, dstNew, srcOld, n) ==
    [newNode EXCEPT !.ents =
        [i \in 1..Len(newNode.ents) |->
            IF i > dstNew /\ i <= dstNew + n
            THEN oldNode.ents[srcOld + (i - dstNew)]
            ELSE newNode.ents[i]]]

leafInsert(oldNode, idx, key, val) ==
    LET a == nodeAppendRange(setHeader(BTREE_LEAF, nkeys(oldNode) + 1), oldNode, 0, 0, idx)
        b == nodeAppendKV(a, idx, 0, key, val)
    IN  nodeAppendRange(b, oldNode, idx + 1, idx, nkeys(oldNode) - idx)

leafUpdate(oldNode, idx, key, val) ==
    LET a == nodeAppendRange(setHeader(BTREE_LEAF, nkeys(oldNode)), oldNode, 0, 0, idx)
        b == nodeAppendKV(a, idx, 0, key, val)
    IN  nodeAppendRange(b, oldNode, idx + 1, idx + 1, nkeys(oldNode) - (idx + 1))

\* allocate each child and append its link: the loop of nodeReplaceNchild
RECURSIVE appendChildren(_, _, _, _, _)
appendChild(a, newNode, idx, childs, i) ==
    appendChildren(a.st,
        nodeAppendKV(newNode, idx + (i - 1), a.ptr, getKey(childs[i], 0), Str(0, 0)),
        idx, childs, i + 1)

appendChildren(st, newNode, idx, childs, i) ==
    IF i > Len(childs) THEN [st |-> st, node |-> newNode]
    ELSE appendChild(pageNew(st, childs[i]), newNode, idx, childs, i)

\* the common case of nodeReplaceNchild: the page copied, one pointer replaced
replaceLink(a, node, idx) == [st |-> a.st, node |-> setPointer(node, idx, a.ptr)]

\* the general case, after the links of the children were appended
replaceLinks(c, cap, oldNode, idx, inc) ==
    [st   |-> PanicIf(c.st, appendKVPanics(c.node, idx + inc - 1, cap)),
     node |-> Clip(nodeAppendRange(c.node, oldNode, idx + inc, idx + 1,
                                   nkeys(oldNode) - (idx + 1)), cap)]

\* the common case with the child allocated and its pointer not written
replaceCommon_keepLink(st, cap, oldNode, idx, childs) ==
    [st |-> pageNew(st, childs[1]).st, node |-> Clip(oldNode, cap)]

\* the common case: newNode is a buffer of cap bytes
replaceCommon(st, cap, oldNode, idx, childs) ==
    replaceLink(pageNew(st, childs[1]), Clip(oldNode, cap), idx)

\* the general case
replaceGeneral(st, cap, oldNode, idx, childs) ==
    replaceLinks(
        appendChildren(st,
            nodeAppendRange(setHeader(BTREE_NODE, nkeys(oldNode) + Len(childs) - 1),
                            oldNode, 0, 0, idx),
            idx, childs, 1),
        cap, oldNode, idx, Len(childs))

nodeReplaceNchild(st, cap, oldNode, idx, childs) ==
    IF Len(childs) = 1 /\ BytesEqual(getKey(childs[1], 0), getKey(oldNode, idx))
    THEN replaceCommon(st, cap, oldNode, idx, childs)
    ELSE replaceGeneral(st, cap, oldNode, idx, childs)

(* ---------------- B+ tree: splits ---------------- *)
left_bytes(old, nleft) ==
    U16(HEADER + 8 * nleft + 2 * nleft + getOffset(old, nleft))

right_bytes(old, nleft) == U16(nbytes(old) - left_bytes(old, nleft) + HEADER)

RECURSIVE fitLeft(_, _)
fitLeft(old, nleft) ==
    IF nleft > 0 /\ left_bytes(old, nleft) > BTREE_MAX_NODE_SIZE
    THEN fitLeft(old, nleft - 1) ELSE nleft

RECURSIVE fitRight(_, _)
fitRight(old, nleft) ==
    IF nleft < nkeys(old) /\ right_bytes(old, nleft) > BTREE_MAX_NODE_SIZE
    THEN fitRight(old, nleft + 1) ELSE nleft

\* a nodeSplit2 that keeps its first guess
splitPoint_half(old) == nkeys(old) \div 2

\* the number of keys nodeSplit2 leaves in the left page
splitPoint(old) == fitRight(old, fitLeft(old, nkeys(old) \div 2))

split2At(old, nleft) ==
    [left  |-> nodeAppendRange(setHeader(btype(old), nleft), old, 0, 0, nleft),
     right |-> nodeAppendRange(setHeader(btype(old), nkeys(old) - nleft), old, 0, nleft,
                               nkeys(old) - nleft)]

nodeSplit2(old) == split2At(old, splitPoint(old))

\* the assertions of nodeSplit2
nodeSplit2Ok(old) ==
    /\ nkeys(old) >= 2
    /\ fitLeft(old, nkeys(old) \div 2) >= 1
    /\ splitPoint(old) < nkeys(old)
    /\ nbytes(nodeSplit2(old).right) <= BTREE_MAX_NODE_SIZE

split3Left(t, right) == <<t.left, t.right, right>>

split3Of(s) ==
    IF nbytes(s.left) <= BTREE_MAX_NODE_SIZE THEN <<s.left, s.right>>
    ELSE split3Left(nodeSplit2(s.left), s.right)

nodeSplit3(old) ==
    IF nbytes(old) <= BTREE_MAX_NODE_SIZE THEN <<old>> ELSE split3Of(nodeSplit2(old))

\* the assertions of nodeSplit3 on the second split
split3LeftOk(left) ==
    \/ nbytes(left) <= BTREE_MAX_NODE_SIZE
    \/ nodeSplit2Ok(left) /\ nbytes(nodeSplit2(left).left) <= BTREE_MAX_NODE_SIZE

\* the assertions of nodeSplit2 and nodeSplit3 hold for this page
nodeSplit3Ok(old) ==
    \/ nbytes(old) <= BTREE_MAX_NODE_SIZE
    \/ nodeSplit2Ok(old) /\ split3LeftOk(nodeSplit2(old).left)

(* ---------------- B+ tree: insertion ---------------- *)
InsertReq(key, val, mode) == [Key |-> key, Val |-> val, Mode |-> mode]

NoOp(st) == [st |-> st, node |-> NoNode, added |-> FALSE]

withAdded(rep, added) == [st |-> rep.st, node |-> rep.node, added |-> added]

\* nodeInsert after the recursion into the child returned r
nodeInsertDone(r, node, idx) ==
    IF IsNone(r.node) THEN r
    ELSE withAdded(
             nodeReplaceNchild(
                 PanicIf(pageDel(r.st, getPointer(node, idx)), ~nodeSplit3Ok(r.node)),
                 2 * BTREE_MAX_NODE_SIZE, node, idx, nodeSplit3(r.node)),
             r.added)

RECURSIVE treeInsert(_, _, _)
nodeInsert(st, req, node, idx) ==
    nodeInsertDone(
        treeInsert(Touch(st, getPointer(node, idx)), req, pageGet(st, getPointer(node, idx))),
        node, idx)

\* a treeInsert that replaces the value whatever the mode
treeInsertAt_upsert(st, req, node, idx) ==
    IF btype(node) = BTREE_LEAF
    THEN IF BytesEqual(req.Key, getKey(node, idx))
         THEN [st |-> st, node |-> leafUpdate(node, idx, req.Key, req.Val), added |-> FALSE]
         ELSE [st |-> st, node |-> leafInsert(node, idx + 1, req.Key, req.Val),
               added |-> TRUE]
    ELSE nodeInsert(st, req, node, idx)

treeInsertAt(st, req, node, idx) ==
    IF btype(node) = BTREE_LEAF
    THEN IF BytesEqual(req.Key, getKey(node, idx))
         THEN IF req.Mode = MODE_INSERT_ONLY THEN NoOp(st)
              ELSE IF BytesEqual(req.Val, getVal(node, idx)) THEN NoOp(st)
              ELSE [st |-> st, node |-> leafUpdate(node, idx, req.Key, req.Val),
                    added |-> FALSE]
         ELSE IF req.Mode = MODE_UPDATE_ONLY THEN NoOp(st)
              ELSE [st |-> st, node |-> leafInsert(node, idx + 1, req.Key, req.Val),
                    added |-> TRUE]
    ELSE IF btype(node) = BTREE_NODE
    THEN nodeInsert(st, req, node, idx)
    ELSE NoOp([st EXCEPT !.panic = TRUE])

treeInsert(st, req, node) == treeInsertAt(st, req, node, nodeLookupLE(node, req.Key))

\* tree.root = tree.new(node)
setRoot(a) == [a.st EXCEPT !.root = a.ptr]
pageNewOf(c) == pageNew(c.st, c.node)

\* the new root built over the pieces of a split root
newRootOver(st, pieces) ==
    setRoot(pageNewOf(appendChildren(st, setHeader(BTREE_NODE, Len(pieces)), 0, pieces, 1)))

rootOver(st, split) ==
    IF Len(split) > 1 THEN newRootOver(st, split) ELSE setRoot(pageNew(st, split[1]))

\* an InsertImpl that leaves the old root allocated
insertDone_keepRoot(r, root) ==
    IF IsNone(r.node) THEN [st |-> r.st, added |-> r.added]
    ELSE [st    |-> rootOver(PanicIf(r.st, ~nodeSplit3Ok(r.node)), nodeSplit3(r.node)),
          added |-> r.added]

\* InsertImpl after treeInsert on the root page returned r
insertDone(r, root) ==
    IF IsNone(r.node) THEN [st |-> r.st, added |-> r.added]
    ELSE [st    |-> rootOver(PanicIf(pageDel(r.st, root), ~nodeSplit3Ok(r.node)),
                             nodeSplit3(r.node)),
          added |-> r.added]

InsertImpl(st, req) ==
    IF \/ req.Key.n = 0
       \/ req.Key.n > BTREE_MAX_KEY_SIZE
       \/ req.Val.n > BTREE_MAX_VAL_SIZE
    THEN [st |-> [st EXCEPT !.panic = TRUE], added |-> FALSE]
    ELSE IF st.root = 0
    THEN [st |-> setRoot(pageNew(st,
                     nodeAppendKV(
                         nodeAppendKV(setHeader(BTREE_LEAF, n_keys), 0, 0, Str(0, 0), Str(0, 0)),
                         1, 0, req.Key, req.Val))),
          added |-> TRUE]
    ELSE insertDone(treeInsert(Touch(st, st.root), req, pageGet(st, st.root)), st.root)

(* ---------------- B+ tree: merging and deletion ---------------- *)
NoMerge == [dir |-> 0, sibling |-> NoNode]

\* a shouldMerge that merges pages of any size
shouldMerge_anySize(st, node, idx, updated) ==
    LET left  == pageGet(st, getPointer(node, idx - 1))
        right == pageGet(st, getPointer(node, idx + 1))
    IN  IF idx > 0 /\ U16(nbytes(left) + nbytes(updated) - HEADER) <= BTREE_MAX_NODE_SIZE
        THEN [dir |-> -1, sibling |-> left]
        ELSE IF /\ idx + 1 < nkeys(node)
                /\ U16(nbytes(right) + nbytes(updated) - HEADER) <= BTREE_MAX_NODE_SIZE
        THEN [dir |-> 1, sibling |-> right]
        ELSE NoMerge

shouldMerge(st, node, idx, updated) ==
    IF nbytes(updated) > BTREE_MAX_NODE_SIZE \div 4 THEN NoMerge
    ELSE LET left  == pageGet(st, getPointer(node, idx - 1))
             right == pageGet(st, getPointer(node, idx + 1))
         IN  IF idx > 0 /\ U16(nbytes(left) + nbytes(updated) - HEADER) <= BTREE_MAX_NODE_SIZE
             THEN [dir |-> -1, sibling |-> left]
             ELSE IF /\ idx + 1 < nkeys(node)
                     /\ U16(nbytes(right) + nbytes(updated) - HEADER) <= BTREE_MAX_NODE_SIZE
             THEN [dir |-> 1, sibling |-> right]
             ELSE NoMerge

\* a shouldMerge that reads the child the caller has just deleted
shouldMergeTouch_child(st, node, idx, updated) == Touch(st, getPointer(node, idx))

\* the sibling reads of shouldMerge, for the assertions of pageGet
shouldMergeTouch(st, node, idx, updated) ==
    IF nbytes(updated) > BTREE_MAX_NODE_SIZE \div 4 THEN st
    ELSE LET st1 == IF idx > 0 THEN Touch(st, getPointer(node, idx - 1)) ELSE st
         IN  IF shouldMerge(st, node, idx, updated).dir = -1 THEN st1
             ELSE IF idx + 1 < nkeys(node) THEN Touch(st1, getPointer(node, idx + 1))
             ELSE st1

nodeMerge(left, right) ==
    LET h == setHeader(btype(left), nkeys(left) + nkeys(right))
        a == nodeAppendRange(h, left, 0, 0, nkeys(left))
    IN  nodeAppendRange(a, right, nkeys(left), 0, nkeys(right))

leafDelete(oldNode, idx) ==
    LET a == nodeAppendRange(setHeader(BTREE_LEAF, nkeys(oldNode) - 1), oldNode, 0, 0, idx)
    IN  nodeAppendRange(a, oldNode, idx, idx + 1, nkeys(oldNode) - (idx + 1))

nodeReplace2Child(oldNode, idx, ptr, key) ==
    LET a == nodeAppendRange(setHeader(btype(oldNode), nkeys(oldNode) - 1), oldNode, 0, 0, idx)
        b == nodeAppendKV(a, idx, ptr, key, Str(0, 0))
    IN  nodeAppendRange(b, oldNode, idx + 1, idx + 2, nkeys(oldNode) - (idx + 2))

NoDel(st) == [st |-> st, node |-> NoNode]

\* the page nodeDelete returns, built in a buffer of one page
builtInPage(st, new, at) ==
    [st   |-> PanicIf(st, appendKVPanics(new, at, BTREE_MAX_NODE_SIZE)),
     node |-> Clip(new, BTREE_MAX_NODE_SIZE)]

replace2Done(a, node, at, key) ==
    builtInPage(a.st, nodeReplace2Child(node, at, a.ptr, key), at)

\* the merged page allocated, the two links of node at at and at + 1 replaced by it
\* nodeMerge asserts that the merged page fits
mergedInto(st, merged, node, at) ==
    replace2Done(pageNew(PanicIf(st, nbytes(merged) > BTREE_MAX_NODE_SIZE), merged),
                 node, at, getKey(merged, 0))

\* nodeDelete once shouldMerge has answered m
nodeDeleteMerge(st, m, node, idx, updated) ==
    IF m.dir < 0
    THEN mergedInto(pageDel(st, getPointer(node, idx - 1)),
                    Clip(nodeMerge(m.sibling, updated), BTREE_MAX_NODE_SIZE), node, idx - 1)
    ELSE IF m.dir > 0
    THEN mergedInto(pageDel(st, getPointer(node, idx + 1)),
                    Clip(nodeMerge(updated, m.sibling), BTREE_MAX_NODE_SIZE), node, idx)
    ELSE IF nkeys(updated) = 0
    THEN [st |-> PanicIf(st, ~(nkeys(node) = 1 /\ idx = 0)),
          node |-> setHeader(BTREE_NODE, 0)]
    ELSE nodeReplaceNchild(st, BTREE_MAX_NODE_SIZE, node, idx, <<updated>>)

\* nodeDelete after the recursion into the child returned r
nodeDeleteDone(r, node, idx) ==
    IF IsNone(r.node) THEN r
    ELSE nodeDeleteMerge(
             shouldMergeTouch(pageDel(r.st, getPointer(node, idx)), node, idx, r.node),
             shouldMerge(pageDel(r.st, getPointer(node, idx)), node, idx, r.node),
             node, idx, r.node)

RECURSIVE treeDelete(_, _, _)
nodeDelete(st, node, idx, key) ==
    nodeDeleteDone(
        treeDelete(Touch(st, getPointer(node, idx)), pageGet(st, getPointer(node, idx)), key),
        node, idx)

treeDeleteAt(st, node, key, idx) ==
    IF btype(node) = BTREE_LEAF
    THEN IF idx < nkeys(node) /\ BytesEqual(key, getKey(node, idx))
         THEN [st |-> st, node |-> Clip(leafDelete(node, idx), BTREE_MAX_NODE_SIZE)]
         ELSE NoDel(st)
    ELSE IF btype(node) = BTREE_NODE
    THEN nodeDelete(st, node, idx, key)
    ELSE NoDel([st EXCEPT !.panic = TRUE])

treeDelete(st, node, key) == treeDeleteAt(st, node, key, nodeLookupLE(node, key))

\* Delete after treeDelete on the root page returned r
\* a Delete that gives the root up when only one entry is left in it
deleteDone_resetRoot(r, root) ==
    IF IsNone(r.node) THEN [st |-> r.st, deleted |-> FALSE]
    ELSE IF btype(r.node) = BTREE_NODE /\ nkeys(r.node) = 1
    THEN [st |-> [pageDel(r.st, root) EXCEPT !.root = getPointer(r.node, 0)],
          deleted |-> TRUE]
    ELSE IF nkeys(r.node) = 1
    THEN [st |-> [pageDel(r.st, root) EXCEPT !.root = 0], deleted |-> TRUE]
    ELSE [st |-> setRoot(pageNew(pageDel(r.st, root), r.node)), deleted |-> TRUE]

\* a Delete that never removes a level
deleteDone_keepLevel(r, root) ==
    IF IsNone(r.node) THEN [st |-> r.st, deleted |-> FALSE]
    ELSE [st |-> setRoot(pageNew(pageDel(r.st, root), r.node)), deleted |-> TRUE]

deleteDone(r, root) ==
    IF IsNone(r.node) THEN [st |-> r.st, deleted |-> FALSE]
    ELSE IF btype(r.node) = BTREE_NODE /\ nkeys(r.node) = 1
    THEN [st |-> [pageDel(r.st, root) EXCEPT !.root = getPointer(r.node, 0)],
          deleted |-> TRUE]
    ELSE [st |-> setRoot(pageNew(pageDel(r.st, root), r.node)), deleted |-> TRUE]

Delete(st, key) ==
    IF key.n = 0 \/ key.n > BTREE_MAX_KEY_SIZE
    THEN [st |-> [st EXCEPT !.panic = TRUE], deleted |-> FALSE]
    ELSE IF st.root = 0 THEN [st |-> st, deleted |-> FALSE]
    ELSE deleteDone(treeDelete(Touch(st, st.root), pageGet(st, st.root), key), st.root)

(* ---------------- free list: Update(popn, freed) ---------------- *)
\* pull pointers from the top of the remaining items of a page into reuse
RECURSIVE pullReuse(_, _, _, _)
pullReuse(node, remain, freed, reuse) ==
    IF remain > 0 /\ Len(reuse) * FREE_LIST_CAP < Len(freed) + remain
    THEN pullReuse(node, remain - 1, freed,
                   Append(reuse, freelistNodeGetPointer(node, remain - 1)))
    ELSE [remain |-> remain, reuse |-> reuse]

\* a step 1 that hands the consumed pointers back to the list
RECURSIVE flDrain_keepPopped(_, _, _, _, _, _)
flDrain_keepPopped(st, head, popn, freed, reuse, total) ==
    IF head # 0 /\ Len(reuse) * FREE_LIST_CAP < Len(freed)
    THEN LET node   == pageGet(st, head)
             size   == freeListNodeSize(node)
             freed1 == Append(freed, head)
             st1    == Touch(st, head)
         IN  IF popn >= size
             THEN flDrain_keepPopped(st1, freeListNext(node), popn - size,
                                     freed1 \o node.ptrs, reuse, total - size)
             ELSE LET pr     == pullReuse(node, size - popn, freed1, reuse)
                      freed2 == freed1 \o SubSeq(node.ptrs, 1, pr.remain)
                                       \o SubSeq(node.ptrs, size - popn + 1, size)
                  IN  flDrain_keepPopped(st1, freeListNext(node), 0, freed2, pr.reuse,
                                         total - size)
    ELSE [st |-> st, head |-> head, freed |-> freed, reuse |-> reuse, total |-> total]

\* step 1: discard head pages until reuse can house freed
RECURSIVE flDrain(_, _, _, _, _, _)
flDrain(st, head, popn, freed, reuse, total) ==
    IF head # 0 /\ Len(reuse) * FREE_LIST_CAP < Len(freed)
    THEN LET node   == pageGet(st, head)
             size   == freeListNodeSize(node)
             freed1 == Append(freed, head)
             st1    == Touch(st, head)
         IN  IF popn >= size
             THEN flDrain(st1, freeListNext(node), popn - size, freed1, reuse, total - size)
             ELSE LET pr     == pullReuse(node, size - popn, freed1, reuse)
                      freed2 == freed1 \o SubSeq(node.ptrs, 1, pr.remain)
                  IN  flDrain(st1, freeListNext(node), 0, freed2, pr.reuse, total - size)
    ELSE [st |-> st, head |-> head, freed |-> freed, reuse |-> reuse, total |-> total]

\* step 2: prepend new pages holding freed
RECURSIVE freeListPush(_, _, _)
freeListPush(st, freed, reuse) ==
    IF Len(freed) = 0 THEN st
    ELSE LET size == Min(Len(freed), FREE_LIST_CAP)
             new  == FLNode(SubSeq(freed, 1, size), 0, st.fhead)
             rest == SubSeq(freed, size + 1, Len(freed))
         IN  IF Len(reuse) > 0
             THEN freeListPush([pageUse(st, reuse[1], new) EXCEPT !.fhead = reuse[1]],
                               rest, Tail(reuse))
             ELSE LET a == pageAppend(st, new)
                  IN  freeListPush([a.st EXCEPT !.fhead = a.ptr], rest, reuse)

\* step 3: the total of the list, written into the head page
setTotal(st, t) ==
    IF st.fhead = 0 THEN st
    ELSE IF InUpdates(st, st.fhead)
    THEN [st EXCEPT !.updates[st.fhead] = [pageGet(st, st.fhead) EXCEPT !.total = t]]
    ELSE [st EXCEPT !.mapped[st.fhead] = [pageGet(st, st.fhead) EXCEPT !.total = t]]

\* steps 2 and 3, on what step 1 left: the total written is the total step 1
\* tracked (decremented by every page it drained) plus the pointers the push
\* phase is handed, the recycled ones included
\* an Update that leaves step 3 out
flPushed_noTotal(d) ==
    freeListPush([d.st EXCEPT !.fhead = d.head], d.freed, d.reuse)

flPushed(d) ==
    setTotal(freeListPush([d.st EXCEPT !.fhead = d.head], d.freed, d.reuse),
             d.total + Len(d.freed))

\* an Update whose step 3 adds the freed of the caller to the total it began with
flUpdate_sum(st, popn, freed) ==
    IF popn = 0 /\ Len(freed) = 0 THEN st
    ELSE setTotal(flPushed(flDrain(st, st.fhead, popn, freed, <<>>, ListLen(st))),
                  ListLen(st) + Len(freed))

\* an Update that forgets what it is given
flUpdate_forget(st, popn, freed) == st

flUpdate(st, popn, freed) ==
    IF popn = 0 /\ Len(freed) = 0 THEN st
    ELSE flPushed(flDrain(st, st.fhead, popn, freed, <<>>, ListLen(st)))

(* ---------------- pager: meta-page ---------------- *)
RECURSIVE LittleEndian(_, _)
LittleEndian(x, nbytes_) ==
    IF nbytes_ = 0 THEN <<>> ELSE <<x % 256>> \o LittleEndian(x \div 256, nbytes_ - 1)

RECURSIVE Uint64(_)
Uint64(bytes) ==
    IF Len(bytes) = 0 THEN 0 ELSE bytes[1] + 256 * Uint64(Tail(bytes))

Zeros(n) == [i \in 1..n |-> 0]

\* copy(dst, src): the first min(len) bytes of dst replaced
Copy(dst, src) == [i \in 1..Len(dst) |-> IF i <= Len(src) THEN src[i] ELSE dst[i]]

\* the 40 bytes storeMetapage writes at offset 0
MetaBytes(st) ==
    Copy(Zeros(DB_SIG_SIZE), DB_SIG)
        \o LittleEndian(st.root, POINTER_SIZE)
        \o LittleEndian(st.flushed, POINTER_SIZE)
        \o LittleEndian(st.fhead, POINTER_SIZE)

\* bytes.Equal: the same length and the same bytes
bytesEqual(a, b) == Len(a) = Len(b) /\ \A i \in 1..Len(a) : a[i] = b[i]

\* a loadMetapage that takes the three fields as they are
loadMetapage_trusting(st) ==
    IF st.file_size = 0 THEN [st |-> [st EXCEPT !.flushed = 1], err |-> "none"]
    ELSE [st |-> [st EXCEPT
                     !.root = Uint64(SubSeq(st.meta, DB_SIG_SIZE + 1,
                                            DB_SIG_SIZE + POINTER_SIZE)),
                     !.flushed = Uint64(SubSeq(st.meta, DB_SIG_SIZE + POINTER_SIZE + 1,
                                               DB_SIG_SIZE + 2 * POINTER_SIZE)),
                     !.fhead = Uint64(SubSeq(st.meta, DB_SIG_SIZE + 2 * POINTER_SIZE + 1,
                                             DB_SIG_SIZE + 3 * POINTER_SIZE))],
          err |-> "none"]

\* loadMetapage on the first bytes of chunk 0; file_size is in bytes
loadMetapage(st) ==
    IF st.file_size = 0 THEN [st |-> [st EXCEPT !.flushed = 1], err |-> "none"]
    ELSE LET data == st.meta
             root == Uint64(SubSeq(data, DB_SIG_SIZE + 1, DB_SIG_SIZE + POINTER_SIZE))
             used == Uint64(SubSeq(data, DB_SIG_SIZE + POINTER_SIZE + 1,
                                   DB_SIG_SIZE + 2 * POINTER_SIZE))
             free == Uint64(SubSeq(data, DB_SIG_SIZE + 2 * POINTER_SIZE + 1,
                                   DB_SIG_SIZE + 3 * POINTER_SIZE))
             bad  == \/ ~(1 <= used /\ used <= st.file_size \div BTREE_MAX_NODE_SIZE)
                     \/ ~(root < used)
                     \/ ~(free < used)
         IN  IF ~bytesEqual(DB_SIG, SubSeq(data, 1, DB_SIG_SIZE))
             THEN [st |-> st, err |-> "bad signature"]
             ELSE IF bad THEN [st |-> st, err |-> "bad meta page"]
             ELSE [st |-> [st EXCEPT !.root = root, !.fhead = free, !.flushed = used],
                   err |-> "none"]

(* ---------------- pager: extension and commit ---------------- *)
RECURSIVE growPages(_, _)
growPages(filePages, npages) ==
    IF filePages < npages
    THEN growPages(filePages + Max(filePages \div 8, 1), npages)
    ELSE filePages

extendFile(st, npages) ==
    LET filePages == st.file_size \div BTREE_MAX_NODE_SIZE
    IN  IF filePages >= npages THEN st
        ELSE [st EXCEPT !.file_size = growPages(filePages, npages) * BTREE_MAX_NODE_SIZE]

\* an extendMmap that maps nothing more
extendMmap_never(st, npages) == st

extendMmap(st, npages) ==
    IF st.mmap_size >= npages * BTREE_MAX_NODE_SIZE THEN st
    ELSE [st EXCEPT !.mmap_size = st.mmap_size + st.mmap_size,
                    !.chunks = Append(st.chunks, st.mmap_size)]

\* the pointers of the update map marked pending-free
FreedSet(st) == {p \in DOMAIN st.updates : st.updates[p] = Nil}
WrittenSet(st) == {p \in DOMAIN st.updates : st.updates[p] # Nil}

\* every order in which the map iteration can yield a set of pointers
Orders(S) == {f \in [1..Cardinality(S) -> S] : \A i, j \in 1..Cardinality(S) : f[i] = f[j] => i = j}

\* the copy loop of writePages
copyPages(st) ==
    [st EXCEPT !.mapped = [p \in DOMAIN st.mapped \cup WrittenSet(st) |->
                              IF p \in WrittenSet(st) THEN st.updates[p] ELSE st.mapped[p]],
               !.panic = st.panic \/ \E p \in WrittenSet(st) : ~MappedPointer(st, p)]

\* writePages after the free list was updated
writeUpdates(st) ==
    copyPages(extendMmap(extendFile(st, st.flushed + st.n_append),
                         st.flushed + st.n_append))

writePages(st, freed) == writeUpdates(flUpdate(st, st.n_free, freed))

\* syncPages between its two fsyncs: the counters, then the meta-page
storeMetapage(st) == [st EXCEPT !.meta = MetaBytes(st)]

\* the counters syncPages resets after its first fsync
\* a syncPages that resets the counters and forgets to count the appended pages
syncCounters_noAdvance(st) == [st EXCEPT !.n_free = 0, !.n_append = 0, !.updates = <<>>]

syncCounters(st) ==
    [st EXCEPT !.flushed = st.flushed + st.n_append,
               !.n_free = 0,
               !.n_append = 0,
               !.updates = <<>>]

syncReset(st) == storeMetapage(syncCounters(st))

(* ---------------- the store and its environment ---------------- *)
VARIABLES
    kv,       \* the KV struct, with the contents of its mapping (mapped, meta)
    disk,     \* what the file durably holds: size, meta-page bytes, pages
    pc,       \* where the caller is: idle, inside flushPages, failed, crashed, closed
    ref,      \* the reference map the test harness keeps beside the store
    last,     \* the operation in progress or just returned, and its results;
              \* calls counts the calls of a bulk load
    events    \* the steps of the commit in progress, in the order they ran

vars == <<kv, disk, pc, ref, last, events>>

\* the inputs the environment draws from
Keys == {Str(c, 1) : c \in 1..MaxKeyChar}
Vals == {Str(1, 1), Str(1, BTREE_MAX_VAL_SIZE)}
Modes == {MODE_UPSERT, MODE_UPDATE_ONLY, MODE_INSERT_ONLY}

Found(v) == [val |-> v, found |-> TRUE]

\* what Get answers for every key the harness tracks
Map(st) == [k \in DOMAIN ref |-> TreeGet(st, k)]

NoDisk == [size |-> 0, meta |-> Zeros(METAPAGE_SIZE), pages |-> <<>>]

\* mmapInit: the first chunk covers the file
RECURSIVE mmapInitSize(_, _)
mmapInitSize(mmapSize, fileSize) ==
    IF mmapSize < fileSize THEN mmapInitSize(mmapSize * 2, fileSize) ELSE mmapSize

\* the struct of an Open that mmapInit stopped: nothing is mapped
Unmapped ==
    [root |-> 0, fhead |-> 0, flushed |-> 0, n_free |-> 0, n_append |-> 0,
     updates |-> <<>>, file_size |-> 0, mmap_size |-> 0, chunks |-> <<>>,
     mapped |-> <<>>, meta |-> Zeros(METAPAGE_SIZE), panic |-> FALSE, baddel |-> FALSE, badnew |-> FALSE, nullget |-> FALSE]

\* KV.Open on a file: the zero struct, the first chunk, then loadMetapage
OpenOn(d) ==
    IF d.size % BTREE_MAX_NODE_SIZE # 0
    THEN [st |-> Unmapped, err |-> "file size is not a multiple of node(page) size"]
    ELSE
    loadMetapage([root |-> 0, fhead |-> 0, flushed |-> 0, n_free |-> 0, n_append |-> 0,
                  updates |-> <<>>,
                  file_size |-> d.size,
                  mmap_size |-> mmapInitSize(INITIAL_MMAP_SIZE, d.size),
                  chunks |-> <<mmapInitSize(INITIAL_MMAP_SIZE, d.size)>>,
                  mapped |-> d.pages, meta |-> d.meta, panic |-> FALSE, baddel |-> FALSE, badnew |-> FALSE, nullget |-> FALSE])

\* the struct of a process that is gone
DeadKV == [OpenOn(NoDisk).st EXCEPT !.flushed = 0]

\* what the file holds once every write of the process has reached it
Durable(st) == [size |-> st.file_size, meta |-> st.meta, pages |-> st.mapped]

Op(op, key, val, mode, added, deleted, post) ==
    [op |-> op, key |-> key, val |-> val, mode |-> mode, added |-> added,
     deleted |-> deleted, pre |-> Map(kv), was |-> ref, post |-> post,
     root |-> kv.root, fhead |-> kv.fhead, flushed |-> kv.flushed,
     ret |-> "pending", err |-> "none", from |-> pc, after |-> "call",
     calls |-> last.calls]

\* a new file, opened; nothing was called yet
InitOn(keys) ==
    /\ kv = OpenOn(NoDisk).st
    /\ disk = NoDisk
    /\ pc = "idle"
    /\ ref = [k \in keys |-> NotFound]
    /\ last = [op |-> "open", key |-> Str(0, 0), val |-> Str(0, 0), mode |-> 0,
               added |-> FALSE, deleted |-> FALSE,
               pre |-> [k \in keys |-> NotFound], was |-> [k \in keys |-> NotFound],
               post |-> [k \in keys |-> NotFound],
               root |-> 0, fhead |-> 0, flushed |-> 0,
               ret |-> "nil", err |-> "none", from |-> "closed", after |-> "create",
               calls |-> 0]
    /\ events = <<>>

Init == InitOn(Keys)

CanCall == pc = "idle" /\ kv.flushed < MaxPages

\* after the tree operation the caller enters flushPages, unless an assertion fired
Enter(st) == IF st.panic THEN "crashed" ELSE "flush"

\* the tree operation of a call has run: the caller goes on into flushPages
Called(st, op, newref) ==
    /\ kv' = st
    /\ pc' = Enter(st)
    /\ last' = op
    /\ ref' = newref
    /\ events' = <<>>
    /\ UNCHANGED disk

SetDone(r, key, val) ==
    Called(r.st,
           Op("set", key, val, MODE_UPSERT, r.added, FALSE, [ref EXCEPT ![key] = Found(val)]),
           [ref EXCEPT ![key] = Found(val)])

\* KV.Set
Set(key, val) ==
    /\ CanCall
    /\ SetDone(InsertImpl(kv, InsertReq(key, val, MODE_UPSERT)), key, val)

\* the reference map follows what Update reports
UpdateRef(key, val, mode, added) ==
    IF added \/ (ref[key].found /\ mode # MODE_INSERT_ONLY)
    THEN [ref EXCEPT ![key] = Found(val)]
    ELSE ref

UpdateDone(r, key, val, mode) ==
    Called(r.st,
           Op("update", key, val, mode, r.added, FALSE, UpdateRef(key, val, mode, r.added)),
           UpdateRef(key, val, mode, r.added))

\* KV.Update
Update(key, val, mode) ==
    /\ CanCall
    /\ UpdateDone(InsertImpl(kv, InsertReq(key, val, mode)), key, val, mode)

DelDone(r, key) ==
    Called(r.st,
           Op("del", key, Str(0, 0), 0, FALSE, r.deleted, [ref EXCEPT ![key] = NotFound]),
           [ref EXCEPT ![key] = NotFound])

\* KV.Del
Del(key) ==
    /\ CanCall
    /\ DelDone(Delete(kv, key), key)

Written(st) ==
    /\ kv' = st
    /\ pc' = IF st.panic THEN "crashed" ELSE "written"

\* flushPages, first half: writePages
WritePages ==
    /\ pc = "flush"
    /\ \E freed \in Orders(FreedSet(kv)) : Written(writePages(kv, freed))
    /\ events' = Append(events, "copy")
    /\ UNCHANGED <<disk, ref, last>>

\* writePages needs a longer file, a longer mapping
NeedsFile(st) == st.file_size \div BTREE_MAX_NODE_SIZE < st.flushed + st.n_append
NeedsMmap(st) == st.mmap_size < (st.flushed + st.n_append) * BTREE_MAX_NODE_SIZE

\* a writePages that resets the counters when it gives up
Aborted_reset(st) == syncCounters(st)

\* the struct writePages leaves when it returns an error: nothing is undone
Aborted(st) == st

\* Fallocate fails in extendFile, after the free list was updated
FallocateFails(st) ==
    /\ ~st.panic
    /\ NeedsFile(st)
    /\ kv' = Aborted(st)
    /\ last' = [last EXCEPT !.ret = "err", !.err = "fallocate"]

\* Mmap fails in extendMmap, after the file was extended
MmapFails(st) ==
    /\ ~st.panic
    /\ NeedsMmap(st)
    /\ kv' = Aborted(extendFile(st, st.flushed + st.n_append))
    /\ last' = [last EXCEPT !.ret = "err", !.err = "mmap"]

\* flushPages returns the error of writePages; syncPages does not run
ExtendFails ==
    /\ pc = "flush"
    /\ \E freed \in Orders(FreedSet(kv)) :
          \/ FallocateFails(flUpdate(kv, kv.n_free, freed))
          \/ MmapFails(flUpdate(kv, kv.n_free, freed))
    /\ pc' = "failed"
    /\ UNCHANGED <<disk, ref, events>>

\* syncPages: the first fsync
Fsync1 ==
    /\ pc = "written"
    /\ disk' = Durable(kv)
    /\ pc' = "synced"
    /\ events' = Append(events, "fsync1")
    /\ UNCHANGED <<kv, ref, last>>

\* a syncPages that writes the meta-page before its first fsync
StoreMeta_early ==
    /\ pc = "written"
    /\ kv' = syncReset(kv)
    /\ pc' = "stored"
    /\ events' = Append(events, "meta")
    /\ UNCHANGED <<disk, ref, last>>

\* syncPages: the counters are reset and the meta-page is written
StoreMeta ==
    /\ pc = "synced"
    /\ kv' = syncReset(kv)
    /\ pc' = "stored"
    /\ events' = Append(events, "meta")
    /\ UNCHANGED <<disk, ref, last>>

\* syncPages: the second fsync, and the nil error the caller gets
Fsync2 ==
    /\ pc = "stored"
    /\ disk' = Durable(kv)
    /\ pc' = "idle"
    /\ events' = Append(events, "fsync2")
    /\ last' = [last EXCEPT !.ret = "nil"]
    /\ UNCHANGED <<kv, ref>>

\* an fsync that fails: syncPages returns the error, nothing further is written
FsyncFails ==
    /\ pc \in {"written", "stored"}
    /\ pc' = "failed"
    /\ last' = [last EXCEPT !.ret = "err", !.err = "fsync"]
    /\ UNCHANGED <<kv, disk, ref, events>>

\* WriteAt fails: syncPages returns after the counters were reset
StoreMetaFails ==
    /\ pc = "synced"
    /\ kv' = syncCounters(kv)
    /\ pc' = "failed"
    /\ last' = [last EXCEPT !.ret = "err", !.err = "write master page"]
    /\ UNCHANGED <<disk, ref, events>>

\* the slots whose cached content the file does not durably hold yet
DirtySlots == {p \in DOMAIN kv.mapped :
                  p \notin DOMAIN disk.pages \/ disk.pages[p] # kv.mapped[p]}

\* power loss or process death: any part of what was written since the last
\* fsync may have reached the file
Crash ==
    /\ pc \in {"idle", "flush", "written", "synced", "stored", "failed"}
    /\ \E S \in SUBSET DirtySlots, m \in {disk.meta, kv.meta},
          sz \in {disk.size, kv.file_size} :
          /\ \A p \in S : (p + 1) * BTREE_MAX_NODE_SIZE <= sz
          /\ sz = 0 => m = Zeros(METAPAGE_SIZE)
          /\ disk' = [size |-> sz, meta |-> m,
                      pages |-> [p \in DOMAIN disk.pages \cup S |->
                                    IF p \in S THEN kv.mapped[p] ELSE disk.pages[p]]]
    /\ kv' = DeadKV
    /\ pc' = "crashed"
    /\ last' = [last EXCEPT !.from = pc]
    /\ UNCHANGED <<ref, events>>

\* KV.Close: the mappings and the descriptor are released
Close ==
    /\ pc \in {"idle", "failed"}
    /\ disk' = Durable(kv)
    /\ kv' = DeadKV
    /\ pc' = "closed"
    /\ last' = [last EXCEPT !.op = "close", !.root = kv.root, !.fhead = kv.fhead,
                            !.flushed = kv.flushed, !.pre = Map(kv), !.post = ref,
                            !.from = pc]
    /\ UNCHANGED <<ref, events>>

Opened(r) ==
    /\ kv' = IF r.err = "none" THEN r.st ELSE DeadKV
    /\ pc' = IF r.err = "none" THEN "idle" ELSE "openfailed"
    /\ last' = [last EXCEPT !.op = "open", !.post = ref, !.after = pc,
                            !.ret = IF r.err = "none" THEN "nil" ELSE "err",
                            !.err = r.err]
    /\ ref' = IF r.err = "none" THEN [k \in DOMAIN ref |-> TreeGet(r.st, k)] ELSE ref

\* KV.Open on the file the last process left
Open ==
    /\ pc \in {"closed", "crashed"}
    /\ Opened(OpenOn(disk))
    /\ UNCHANGED <<disk, events>>

Next ==
    \/ \E k \in Keys, v \in Vals : Set(k, v)
    \/ \E k \in Keys, v \in Vals, m \in Modes : Update(k, v, m)
    \/ \E k \in Keys : Del(k)
    \/ WritePages
    \/ Fsync1
    \/ StoreMeta
    \/ Fsync2
    \/ ExtendFails
    \/ FsyncFails
    \/ StoreMetaFails
    \/ Crash
    \/ Close
    \/ Open

Spec == Init /\ [][Next]_vars

(* ---------------- what the test harness walks ---------------- *)
\* the pages nodeVerify meets under a pointer; no path is longer than fuel
RECURSIVE treeWalk(_, _, _)
RECURSIVE kidsWalk(_, _, _, _)
treeWalk(st, ptr, fuel) ==
    <<ptr>> \o (IF fuel > 0 /\ btype(pageGet(st, ptr)) = BTREE_NODE
                THEN kidsWalk(st, pageGet(st, ptr), 0, fuel - 1)
                ELSE <<>>)

kidsWalk(st, node, i, fuel) ==
    IF i >= nkeys(node) THEN <<>>
    ELSE treeWalk(st, getPointer(node, i), fuel) \o kidsWalk(st, node, i + 1, fuel)

TreePages(st) == IF st.root = 0 THEN <<>> ELSE treeWalk(st, st.root, st.flushed + st.n_append)

\* the pages of the free-list chain
RECURSIVE flChain(_, _, _)
flChain(st, head, fuel) ==
    IF head = 0 \/ fuel = 0 THEN <<>>
    ELSE <<head>> \o flChain(st, freeListNext(pageGet(st, head)), fuel - 1)

FLChain(st) == flChain(st, st.fhead, st.flushed + st.n_append)

freeListPtrs(node) == IF btype(node) = BNODE_FREE_LIST THEN node.ptrs ELSE <<>>

\* flDump: the pointers the free list holds as items
RECURSIVE flDumpFrom(_, _, _)
flDumpFrom(st, head, fuel) ==
    IF head = 0 \/ fuel = 0 THEN <<>>
    ELSE freeListPtrs(pageGet(st, head))
             \o flDumpFrom(st, freeListNext(pageGet(st, head)), fuel - 1)

flDump(st) == flDumpFrom(st, st.fhead, st.flushed + st.n_append)

Range(f) == {f[i] : i \in DOMAIN f}
NoDup(f) == \A i, j \in DOMAIN f : f[i] = f[j] => i = j

\* every page of the file is the meta-page, a tree page, a free-list page or a
\* free item, and only one of them
PagesAccounted(st) ==
    /\ NoDup(<<0>> \o TreePages(st) \o FLChain(st) \o flDump(st))
    /\ Range(<<0>> \o TreePages(st) \o FLChain(st) \o flDump(st)) = 0..(st.flushed - 1)

\* nodeVerify on one page: keys, and each separator equal to the first key of its child
NodeVerified(st, node) ==
    /\ nkeys(node) >= 1
    /\ btype(node) = BTREE_NODE =>
          \A i \in 0..(nkeys(node) - 1) :
              /\ nkeys(pageGet(st, getPointer(node, i))) >= 1
              /\ BytesEqual(getKey(node, i), getKey(pageGet(st, getPointer(node, i)), 0))

\* what the meta-page on the disk commits, and the pages the disk holds
Committed ==
    IF disk.size = 0
    THEN [root |-> 0, fhead |-> 0, flushed |-> 1, n_append |-> 0,
          updates |-> <<>>, mapped |-> disk.pages]
    ELSE [root    |-> Uint64(SubSeq(disk.meta, DB_SIG_SIZE + 1, DB_SIG_SIZE + POINTER_SIZE)),
          flushed |-> Uint64(SubSeq(disk.meta, DB_SIG_SIZE + POINTER_SIZE + 1,
                                    DB_SIG_SIZE + 2 * POINTER_SIZE)),
          fhead   |-> Uint64(SubSeq(disk.meta, DB_SIG_SIZE + 2 * POINTER_SIZE + 1,
                                    DB_SIG_SIZE + 3 * POINTER_SIZE)),
          n_append |-> 0, updates |-> <<>>, mapped |-> disk.pages]

\* a call of Set, Update or Del has returned nil
Succeeded == pc = "idle" /\ last.op \in {"set", "update", "del"} /\ last.ret = "nil"

\* the caller is inside a call or back from it, the process alive
InCall == /\ pc \in {"flush", "written", "synced", "stored", "idle", "failed"}
          /\ last.op \in {"set", "update", "del"}

(* ---------------- long keys: a bulk load, then deletions ---------------- *)
\* keys of one byte and of BTREE_MAX_KEY_SIZE bytes, and one in between
BulkKeys ==
    {Str(1, 1), Str(2, 1), Str(6, 9)} \cup {Str(c, BTREE_MAX_KEY_SIZE) : c \in 2..6}

\* the value the load stores under a key
BulkVal(k) ==
    IF k = Str(2, BTREE_MAX_KEY_SIZE) THEN Str(1, 10)
    ELSE IF k = Str(6, 9) THEN Str(1, 1)
    ELSE Str(1, BTREE_MAX_VAL_SIZE)

InitBulk == InitOn(BulkKeys)

\* the keys the load starts with, stored in ascending order; after them the
\* load stores and deletes any key, and stores again, with the value it has,
\* a key it stored
LoadKeys == BulkKeys \ {Str(6, 9)}
Loaded == last.calls >= Cardinality(LoadKeys)
CanBulk == pc = "idle" /\ kv.flushed < MaxBulkPages /\ last.calls < MaxCalls

\* flushPages with both fsyncs succeeding
flushPages(st, freed) == syncReset(writePages(st, freed))

\* a whole call that returned nil: the tree operation and flushPages
Returned(st, op, newref) ==
    /\ kv' = st
    /\ disk' = IF st.panic THEN disk ELSE Durable(st)
    /\ pc' = IF st.panic THEN "crashed" ELSE "idle"
    /\ last' = [op EXCEPT !.ret = IF st.panic THEN "panic" ELSE "nil",
                          !.calls = last.calls + 1]
    /\ ref' = newref
    /\ events' = <<"copy", "fsync1", "meta", "fsync2">>

\* one of the orders in which the map iteration can yield the freed pointers
Ascending(S) == CHOOSE f \in Orders(S) : \A i, j \in 1..Cardinality(S) : i < j => f[i] < f[j]

BulkSetDone(r, key) ==
        Returned(flushPages(r.st, Ascending(FreedSet(r.st))),
                 Op("set", key, BulkVal(key), MODE_UPSERT, r.added, FALSE,
                    [ref EXCEPT ![key] = Found(BulkVal(key))]),
                 [ref EXCEPT ![key] = Found(BulkVal(key))])

\* KV.Set, from call to return
BulkSet(key) ==
    /\ CanBulk
    /\ ~ref[key].found
    /\ \/ Loaded
       \/ /\ key \in LoadKeys
          /\ \A k \in LoadKeys : BytesCompare(k, key) < 0 => ref[k].found
    /\ BulkSetDone(InsertImpl(kv, InsertReq(key, BulkVal(key), MODE_UPSERT)), key)

BulkDelDone(r, key) ==
        Returned(flushPages(r.st, Ascending(FreedSet(r.st))),
                 Op("del", key, Str(0, 0), 0, FALSE, r.deleted,
                    [ref EXCEPT ![key] = NotFound]),
                 [ref EXCEPT ![key] = NotFound])

\* KV.Del, from call to return
BulkDel(key) ==
    /\ CanBulk
    /\ ref[key].found
    /\ Loaded
    /\ BulkDelDone(Delete(kv, key), key)

BulkUpdateDone(r, key, mode) ==
        Returned(flushPages(r.st, Ascending(FreedSet(r.st))),
                 Op("update", key, BulkVal(key), mode, r.added, FALSE,
                    UpdateRef(key, BulkVal(key), mode, r.added)),
                 UpdateRef(key, BulkVal(key), mode, r.added))

\* KV.Update, from call to return
BulkUpdate(key, mode) ==
    /\ CanBulk
    /\ ref[key].found
    /\ Loaded
    /\ BulkUpdateDone(InsertImpl(kv, InsertReq(key, BulkVal(key), mode)), key, mode)

NextBulk ==
    \/ \E k \in BulkKeys : BulkSet(k)
    \/ \E k \in BulkKeys : BulkDel(k)
    \/ \E k \in BulkKeys, m \in Modes : BulkUpdate(k, m)

SpecBulk == InitBulk /\ [][NextBulk]_vars

(* ---------------- the same keys stored and deleted over and over ---------------- *)
\* the pages a store of at most K keys was seen to need
CyclePages(K) == 2 * K + 3

CycleKeys == {Str(c, 1) : c \in 1..MaxCycleKeys}
\* every value fills most of a leaf; a key that is stored alone is overwritten
\* with a second value, and another key joins it when it holds the first again
CycleVals(k) ==
    IF \A j \in CycleKeys \ {k} : ~ref[j].found
    THEN {Str(1, BTREE_MAX_VAL_SIZE), Str(2, BTREE_MAX_VAL_SIZE)}
    ELSE IF \A j \in CycleKeys \ {k} : ref[j].found => ref[j].val = Str(1, BTREE_MAX_VAL_SIZE)
    THEN {Str(1, BTREE_MAX_VAL_SIZE)}
    ELSE {}

InitCycle == InitOn(CycleKeys)

CanCycle == pc = "idle" /\ kv.flushed < MaxCyclePages

\* a whole call that returned nil; the calls are not counted
Cycled(st, op, newref) ==
    /\ kv' = st
    /\ disk' = IF st.panic THEN disk ELSE Durable(st)
    /\ pc' = IF st.panic THEN "crashed" ELSE "idle"
    /\ last' = [op EXCEPT !.ret = IF st.panic THEN "panic" ELSE "nil"]
    /\ ref' = newref
    /\ events' = <<"copy", "fsync1", "meta", "fsync2">>

CycleSetDone(r, key, val) ==
        Cycled(flushPages(r.st, Ascending(FreedSet(r.st))),
               Op("set", key, val, MODE_UPSERT, r.added, FALSE,
                  [ref EXCEPT ![key] = Found(val)]),
               [ref EXCEPT ![key] = Found(val)])

\* KV.Set, from call to return
CycleSet(key, val) ==
    /\ CanCycle
    /\ val \in CycleVals(key)
    /\ CycleSetDone(InsertImpl(kv, InsertReq(key, val, MODE_UPSERT)), key, val)

CycleDelDone(r, key) ==
        Cycled(flushPages(r.st, Ascending(FreedSet(r.st))),
               Op("del", key, Str(0, 0), 0, FALSE, r.deleted,
                  [ref EXCEPT ![key] = NotFound]),
               [ref EXCEPT ![key] = NotFound])

\* KV.Del, from call to return
CycleDel(key) ==
    /\ CanCycle
    /\ CycleDelDone(Delete(kv, key), key)

NextCycle ==
    \/ \E k \in CycleKeys, v \in {Str(1, BTREE_MAX_VAL_SIZE), Str(2, BTREE_MAX_VAL_SIZE)} : CycleSet(k, v)
    \/ \E k \in CycleKeys : CycleDel(k)

SpecCycle == InitCycle /\ [][NextCycle]_vars

(* ---------------- calls with inputs the tree refuses ---------------- *)
\* an empty key and a key of one byte more than BTREE_MAX_KEY_SIZE; a value of
\* one byte more than BTREE_MAX_VAL_SIZE
BadKeys == {Str(0, 0), Str(1, BTREE_MAX_KEY_SIZE + 1)}
BadVals == {Str(1, BTREE_MAX_VAL_SIZE + 1)}

BadInput(key, val) ==
    key.n = 0 \/ key.n > BTREE_MAX_KEY_SIZE \/ val.n > BTREE_MAX_VAL_SIZE

\* KV.Set with a key or a value out of range; the harness map is not touched
BadSet(key, val) ==
    /\ CanCall
    /\ BadInput(key, val)
    /\ Called(InsertImpl(kv, InsertReq(key, val, MODE_UPSERT)).st,
              Op("set", key, val, MODE_UPSERT, FALSE, FALSE, ref), ref)

\* KV.Update with a key or a value out of range
BadUpdate(key, val, mode) ==
    /\ CanCall
    /\ BadInput(key, val)
    /\ Called(InsertImpl(kv, InsertReq(key, val, mode)).st,
              Op("update", key, val, mode, FALSE, FALSE, ref), ref)

\* KV.Del with a key out of range
BadDel(key) ==
    /\ CanCall
    /\ BadInput(key, Str(0, 0))
    /\ Called(Delete(kv, key).st, Op("del", key, Str(0, 0), 0, FALSE, FALSE, ref), ref)

\* the calls of a process that meets no failure, and the refused ones
NextInput ==
    \/ \E k \in Keys, v \in Vals : Set(k, v)
    \/ \E k \in Keys : Del(k)
    \/ WritePages
    \/ Fsync1
    \/ StoreMeta
    \/ Fsync2
    \/ \E k \in BadKeys, v \in Vals : BadSet(k, v)
    \/ \E k \in Keys, v \in BadVals : BadSet(k, v)
    \/ \E k \in BadKeys, m \in Modes : BadUpdate(k, Str(1, 1), m)
    \/ \E k \in Keys, v \in BadVals, m \in Modes : BadUpdate(k, v, m)
    \/ \E k \in BadKeys : BadDel(k)

SpecInput == Init /\ [][NextInput]_vars

(* ---------------- Open on the files it may find ---------------- *)
\* what the first DB_SIG_SIZE bytes of a file may be: the signature padded with
\* zeros, zeros, the signature followed by another byte, another first byte
Signatures ==
    {Copy(Zeros(DB_SIG_SIZE), DB_SIG),
     Zeros(DB_SIG_SIZE),
     [Copy(Zeros(DB_SIG_SIZE), DB_SIG) EXCEPT ![Len(DB_SIG) + 1] = 1],
     [Copy(Zeros(DB_SIG_SIZE), DB_SIG) EXCEPT ![1] = 0]}

\* file sizes: whole pages, and sizes that are not
FileSizes ==
    {n * BTREE_MAX_NODE_SIZE : n \in 1..MaxOpenPages}
        \cup {METAPAGE_SIZE, BTREE_MAX_NODE_SIZE + 1}

Files ==
    {NoDisk} \cup
    {[size |-> s,
      meta |-> sig \o LittleEndian(root, POINTER_SIZE) \o LittleEndian(used, POINTER_SIZE)
                   \o LittleEndian(free, POINTER_SIZE),
      pages |-> <<>>] :
        s \in FileSizes, sig \in Signatures,
        root \in 0..MaxOpenPages, used \in 0..(MaxOpenPages + 1), free \in 0..MaxOpenPages}

\* no process yet, and any of the files
InitOpen ==
    /\ disk \in Files
    /\ kv = DeadKV
    /\ pc = "closed"
    /\ ref = [k \in Keys |-> NotFound]
    /\ last = [op |-> "close", key |-> Str(0, 0), val |-> Str(0, 0), mode |-> 0,
               added |-> FALSE, deleted |-> FALSE,
               pre |-> [k \in Keys |-> NotFound], was |-> [k \in Keys |-> NotFound],
               post |-> [k \in Keys |-> NotFound],
               root |-> 0, fhead |-> 0, flushed |-> 0,
               ret |-> "nil", err |-> "none", from |-> "closed", after |-> "create",
               calls |-> 0]
    /\ events = <<>>

\* KV.Open; the struct is left as Open left it
OpenFile ==
    /\ pc = "closed"
    /\ kv' = OpenOn(disk).st
    /\ pc' = IF OpenOn(disk).err = "none" THEN "idle" ELSE "openfailed"
    /\ last' = [last EXCEPT !.op = "open", !.after = pc,
                            !.ret = IF OpenOn(disk).err = "none" THEN "nil" ELSE "err",
                            !.err = OpenOn(disk).err]
    /\ UNCHANGED <<disk, ref, events>>

NextOpen == OpenFile

SpecOpen == InitOpen /\ [][NextOpen]_vars

(* ---------------- properties ---------------- *)
\* C1: after every sequence of Set and Del that returned, Get answers for every
\* key what a reference map updated by the same calls answers.
C1_GetIsReferenceMap == Succeeded => Map(kv) = ref

\* C2: when the process died inside flushPages, the next Open succeeds and loads
\* either the map committed before the call or the map after it.
C2_CrashLoadsOldOrNew ==
    (/\ pc \in {"idle", "openfailed"}
     /\ last.op = "open"
     /\ last.after = "crashed"
     /\ last.from \in {"flush", "written", "synced", "stored"})
    => /\ last.err = "none"
       /\ Map(kv) = last.pre \/ Map(kv) = last.post

\* C3: after calls that returned nil, Close then Open succeeds, restores root,
\* flushed and the free-list head, and Get answers as before Close.
C3_ReopenRestores ==
    (/\ pc \in {"idle", "openfailed"}
     /\ last.op = "open"
     /\ last.after = "closed"
     /\ last.from = "idle")
    => /\ last.err = "none"
       /\ kv.root = last.root
       /\ kv.fhead = last.fhead
       /\ kv.flushed = last.flushed
       /\ Map(kv) = last.pre

\* C4: writePages copies buffers only into slots at or past the committed
\* flushed count or slots the committed free list holds as items, and leaves
\* every committed tree page and free-list page as the disk holds it.
C4_WritesOnlyUnreachableSlots ==
    pc = "written" =>
        /\ \A p \in WrittenSet(kv) :
              p >= Committed.flushed \/ p \in Range(flDump(Committed))
        /\ \A p \in Range(TreePages(Committed)) \cup Range(FLChain(Committed)) :
              pageGetMapped(kv, p) = pageGetMapped(Committed, p)

C4_Witness ==
    /\ pc = "written"
    /\ Committed.root # 0
    /\ \E p \in WrittenSet(kv) : p < Committed.flushed
    /\ \E p \in WrittenSet(kv) : p >= Committed.flushed

\* C5: in a commit the buffers are copied, then the first fsync, then the
\* meta-page write, then the second fsync; a call returns nil only after all four.
C5_CommitOrder ==
    /\ \E n \in 0..4 : events = SubSeq(<<"copy", "fsync1", "meta", "fsync2">>, 1, n)
    /\ (last.op \in {"set", "update", "del"} /\ last.ret = "nil")
          => events = <<"copy", "fsync1", "meta", "fsync2">>

C5_Witness ==
    /\ Succeeded
    /\ last.op = "del"
    /\ last.deleted
    /\ events = <<"copy", "fsync1", "meta", "fsync2">>

\* C6: after every call that returned nil, the meta-page, the tree pages, the
\* pages of the free-list chain and the free items are pairwise disjoint and
\* together are exactly the pages 0 .. flushed - 1.
C6_PagesAccounted == Succeeded => PagesAccounted(kv)

\* a split root over its leaves, with pages of earlier versions on the free list
C6_Witness ==
    /\ Succeeded
    /\ btype(pageGet(kv, kv.root)) = BTREE_NODE
    /\ Len(flDump(kv)) >= 2
    /\ Len(FLChain(kv)) = 1

\* C7: after every call that returned nil, every tree page reachable from the
\* root has nbytes() <= BTREE_MAX_NODE_SIZE.
C7_PagesFit ==
    Succeeded => \A p \in Range(TreePages(kv)) : nbytes(pageGet(kv, p)) <= BTREE_MAX_NODE_SIZE

\* C8: after every call that returned nil, every tree page reachable from the
\* root has a key, and every key of an internal node is the first key of the
\* child its pointer refers to.
C8_SeparatorsAreFirstKeys ==
    Succeeded => \A p \in Range(TreePages(kv)) : NodeVerified(kv, pageGet(kv, p))

\* C9: Update with MODE_UPDATE_ONLY on a key that is not stored reports
\* added = false and leaves the map as it was, also on a store whose root is 0.
C9_UpdateOnlyAbsent ==
    (/\ InCall
     /\ last.op = "update"
     /\ last.mode = MODE_UPDATE_ONLY
     /\ ~last.pre[last.key].found)
    => ~last.added /\ Map(kv) = last.pre

SameValueCall ==
    /\ last.op \in {"set", "update"}
    /\ last.mode \in {MODE_UPSERT, MODE_UPDATE_ONLY}
    /\ last.was[last.key] = Found(last.val)

\* C11: a Set or an Update with MODE_UPDATE_ONLY whose value is the value
\* already stored under the key allocates no page, frees no page and leaves
\* the root pointer as it was, whatever the height of the tree.
C11_SameValueNoOp ==
    /\ (pc = "flush" /\ SameValueCall)
       => /\ DOMAIN kv.updates = {}
          /\ kv.n_free = 0
          /\ kv.n_append = 0
          /\ kv.root = last.root
    /\ (Succeeded /\ SameValueCall)
       => /\ kv.root = last.root
          /\ kv.flushed = last.flushed
          /\ kv.fhead = last.fhead

C11_Witness ==
    /\ pc = "flush"
    /\ SameValueCall
    /\ btype(pageGet(kv, kv.root)) = BTREE_NODE

\* C12: in every mode, Update reports added = true exactly when the key was
\* not stored before the call and is stored after it; it reports false when it
\* replaced the value of a stored key and when it changed nothing.
C12_AddedIffCreated ==
    (InCall /\ last.op = "update")
    => (last.added <=> (~last.was[last.key].found /\ TreeGet(kv, last.key).found))

C12_Witness ==
    /\ pc = "flush"
    /\ last.op = "update"
    /\ last.added
    /\ btype(pageGet(kv, kv.root)) = BTREE_NODE

\* C13: Del reports deleted = true exactly when the key was stored before the
\* call. After true, Get does not find the key and answers for every other key
\* as before; after false, no page was allocated or freed and the root pointer
\* is the one before the call.
C13_DelContract ==
    (InCall /\ last.op = "del")
    => /\ last.deleted <=> last.was[last.key].found
       /\ last.deleted => Map(kv) = [last.was EXCEPT ![last.key] = NotFound]
       /\ ~last.deleted
          => /\ kv.root = last.root
             /\ pc = "flush"
                => DOMAIN kv.updates = {} /\ kv.n_free = 0 /\ kv.n_append = 0

C13_Witness ==
    /\ pc = "flush"
    /\ last.op = "del"
    /\ last.deleted
    /\ btype(pageGet(kv, kv.root)) = BTREE_NODE

\* the last call was given an empty key, a key of more than BTREE_MAX_KEY_SIZE
\* bytes or a value of more than BTREE_MAX_VAL_SIZE bytes
BadInputCall ==
    /\ last.op \in {"set", "update", "del"}
    /\ BadInput(last.key, last.val)
    /\ pc # "closed"

\* C14: Set, Update and Del with an empty key, a key of more than 1000 bytes or
\* a value of more than 3000 bytes return an error to the caller, the process
\* goes on, and the tree, the pending updates and the committed state are what
\* they were before the call.
C14_BadInputIsError ==
    BadInputCall
    => /\ ~kv.panic
       /\ pc = "idle"
       /\ last.ret = "err"
       /\ kv.root = last.root
       /\ DOMAIN kv.updates = {}
       /\ Map(kv) = last.pre

\* the leaf reached from a page by following pointer 0; no path is longer than fuel
RECURSIVE leftmostLeaf(_, _, _)
leftmostLeaf(st, ptr, fuel) ==
    IF fuel > 0 /\ btype(pageGet(st, ptr)) = BTREE_NODE
    THEN leftmostLeaf(st, getPointer(pageGet(st, ptr), 0), fuel - 1)
    ELSE pageGet(st, ptr)

LeftmostLeaf(st) == leftmostLeaf(st, st.root, st.flushed + st.n_append)

\* entry 0 of a page is the empty key with the empty value
SentinelFirst(node) ==
    /\ btype(node) = BTREE_LEAF
    /\ nkeys(node) >= 1
    /\ getKey(node, 0).n = 0
    /\ getVal(node, 0).n = 0

\* C15: once an insert has made the root, the root pointer is never 0 again,
\* entry 0 of the leftmost leaf is the empty key with the empty value after
\* every operation, and when no user key is stored the tree is one page, a
\* leaf with exactly one entry.
C15_SentinelKept ==
    InCall
    => /\ last.root # 0 => kv.root # 0
       /\ last.op \in {"set", "update"} => kv.root # 0
       /\ kv.root # 0
          => /\ SentinelFirst(LeftmostLeaf(kv))
             /\ (\A k \in DOMAIN ref : ~ref[k].found)
                => /\ TreePages(kv) = <<kv.root>>
                   /\ nkeys(pageGet(kv, kv.root)) = 1

C15_Witness ==
    /\ Succeeded
    /\ last.op = "del"
    /\ last.deleted
    /\ kv.root # 0
    /\ kv.flushed > CyclePages(1)
    /\ \A k \in DOMAIN ref : ~ref[k].found

Popped == {flGet(Committed, i) : i \in 0..(kv.n_free - 1)}

\* C17: after FreeList.Update(popn, freed) with popn <= Len(), every pointer
\* of freed is an item of the list, none of the popn pointers Get(0) ..
\* Get(popn - 1) returned before the call is an item, every other item of the
\* list before the call is an item or the address of a free-list page, and no
\* pointer is an item twice.
C17_UpdatePost ==
    (pc = "written" /\ kv.n_free <= ListLen(Committed))
    => /\ FreedSet(kv) \subseteq Range(flDump(kv))
       /\ Popped \cap Range(flDump(kv)) = {}
       /\ \A p \in Range(flDump(Committed)) \ Popped :
             p \in Range(flDump(kv)) \cup Range(FLChain(kv))
       /\ NoDup(flDump(kv))

C17_Witness ==
    /\ pc = "written"
    /\ kv.n_free >= 1
    /\ kv.n_free < ListLen(Committed)
    /\ FreedSet(kv) # {}

\* C18: pageNew hands out a fresh pointer flushed + n_append only when n_free
\* has reached FreeList.Len, that is when every pointer of the committed list
\* was handed out in this transaction; before that it hands out Get(n_free), a
\* pointer an earlier commit freed, and counts it in n_free.
C18_PageNewSource ==
    pc = "flush"
    => /\ kv.n_free <= ListLen(kv)
       /\ kv.n_append > 0 => kv.n_free = ListLen(kv)
       /\ WrittenSet(kv) = {flGet(kv, i) : i \in 0..(kv.n_free - 1)}
                             \cup {kv.flushed + j : j \in 0..(kv.n_append - 1)}
       /\ \A i \in 0..(kv.n_free - 1) :
             /\ flGet(kv, i) \in Range(flDump(Committed))
             /\ flGet(kv, i) < kv.flushed
       /\ Cardinality(WrittenSet(kv)) = kv.n_free + kv.n_append

C18_Witness ==
    /\ pc = "flush"
    /\ kv.n_free >= 2
    /\ kv.n_append >= 1

\* C19: while no more than MaxCycleKeys keys are stored, however often they
\* are overwritten, deleted and stored again, flushed stays within a bound
\* that depends on the number of keys only; calls are issued up to
\* MaxCyclePages pages, which is never reached.
C19_PagesBounded ==
    /\ CyclePages(MaxCycleKeys) < MaxCyclePages
    /\ kv.flushed <= CyclePages(MaxCycleKeys)

C19_Witness ==
    /\ Succeeded
    /\ kv.flushed = CyclePages(MaxCycleKeys)
    /\ last.flushed = kv.flushed
    /\ last.root # kv.root
    /\ kv.fhead # last.fhead

\* the fields of the meta-page of the file
FileSig == SubSeq(disk.meta, 1, DB_SIG_SIZE)
FileRoot == Uint64(SubSeq(disk.meta, DB_SIG_SIZE + 1, DB_SIG_SIZE + POINTER_SIZE))
FileUsed ==
    Uint64(SubSeq(disk.meta, DB_SIG_SIZE + POINTER_SIZE + 1, DB_SIG_SIZE + 2 * POINTER_SIZE))
FileFree ==
    Uint64(SubSeq(disk.meta, DB_SIG_SIZE + 2 * POINTER_SIZE + 1,
                  DB_SIG_SIZE + 3 * POINTER_SIZE))

\* the size is not a multiple of the page size, or the file is not empty and its
\* signature or one of its three fields is wrong
FileIsBad ==
    \/ disk.size % BTREE_MAX_NODE_SIZE # 0
    \/ /\ disk.size # 0
       /\ \/ FileSig # Copy(Zeros(DB_SIG_SIZE), DB_SIG)
          \/ ~(1 <= FileUsed /\ FileUsed <= disk.size \div BTREE_MAX_NODE_SIZE)
          \/ FileRoot >= FileUsed
          \/ FileFree >= FileUsed

\* C20: on a file whose size is not a multiple of the page size, or that is
\* not empty and whose signature is not "ELKDB" padded with zeros, or whose
\* used is outside 1..file_pages, or whose root or free is not below used,
\* Open returns an error and root, flushed and free.head are not loaded.
C20_OpenRejects ==
    (pc \in {"idle", "openfailed"} /\ last.op = "open" /\ FileIsBad)
    => /\ pc = "openfailed"
       /\ last.ret = "err"
       /\ kv.root = 0
       /\ kv.flushed = 0
       /\ kv.fhead = 0

C20_Witness ==
    /\ pc = "openfailed"
    /\ disk.size = 2 * BTREE_MAX_NODE_SIZE
    /\ FileSig = Copy(Zeros(DB_SIG_SIZE), DB_SIG)
    /\ FileUsed = 2
    /\ FileRoot = 2
    /\ FileFree = 0

\* ---------------------------------------------------------------------
\* flushPages gives up in extendFile or extendMmap

\* the step in which writePages returned the error of extendFile or extendMmap
ExtendFailed == pc = "flush" /\ pc' = "failed" /\ last'.err \in {"fallocate", "mmap"}

\* no fsync and no meta-page write: the meta-page of the file is the previous one
AbortNoCommit ==
    /\ events' = <<>>
    /\ disk' = disk
    /\ Committed.root = last.root
    /\ Committed.flushed = last.flushed
    /\ Committed.fhead = last.fhead

\* every pending page is still pending
AbortKeepsUpdates == \A p \in DOMAIN kv.updates : p \in DOMAIN kv'.updates /\ kv'.updates[p] = kv.updates[p]

\* the pages between the two append counters are pending pages of the free list
AppendedByFreeList ==
    \A p \in (kv.flushed + kv.n_append)..(kv'.flushed + kv'.n_append - 1) :
        /\ p \in DOMAIN kv'.updates
        /\ kv'.updates[p] # Nil
        /\ btype(kv'.updates[p]) = BNODE_FREE_LIST

\* C21 as stated: when extendFile or extendMmap fails inside writePages there is
\* no fsync and no meta-page write, the meta-page of the file holds the previous
\* root, flushed and free head, flushed, n_free and n_append keep the values
\* they had when flushPages was entered, and no pending update is removed
C21_AbortKeepsAll ==
    [][ExtendFailed =>
          /\ AbortNoCommit
          /\ kv'.flushed = kv.flushed
          /\ kv'.n_free = kv.n_free
          /\ kv'.n_append = kv.n_append
          /\ AbortKeepsUpdates]_vars

\* C21 amended: the same, but n_append is only not reset: it is the value at
\* entry plus the pages free.Update appended for the list before the failure
C21_AbortKeeps ==
    [][ExtendFailed =>
          /\ AbortNoCommit
          /\ kv'.flushed = kv.flushed
          /\ kv'.n_free = kv.n_free
          /\ kv'.n_append >= kv.n_append
          /\ AppendedByFreeList
          /\ AbortKeepsUpdates]_vars

\* a failed extension after free.Update appended a page for the list
C21_Witness ==
    /\ pc = "failed"
    /\ last.err = "fallocate"
    /\ events = <<>>
    /\ kv.fhead >= kv.flushed
    /\ kv.fhead # last.fhead
    /\ Cardinality(WrittenSet(kv)) > 1

\* ---------------------------------------------------------------------
\* table cells and their order-preserving encoding

TYPE_BYTES == 1
TYPE_INT64 == 2

\* an int64 is four 16-bit limbs, the most significant first and signed
Limb == 256 * 256
Int64(w3, w2, w1, w0) == <<w3, w2, w1, w0>>
ZeroInt64 == Int64(0, 0, 0, 0)

\* Record.AddStr, Record.AddInt64: the cell
BytesValue(s) == [Type |-> TYPE_BYTES, I64 |-> ZeroInt64, Str |-> s]
Int64Value(v) == [Type |-> TYPE_INT64, I64 |-> v, Str |-> <<>>]

\* an encoding of strings that escapes nothing
escapeString_raw(in) == in

\* escapeString: 0x00 -> 0x01 0x01, 0x01 -> 0x01 0x02; the loop writes every
\* byte by itself, so the two halves of a long string are escaped apart
RECURSIVE escapeString(_)
escapeString(in) ==
    IF in = <<>> THEN <<>>
    ELSE IF Len(in) = 1 THEN (IF in[1] <= 1 THEN <<1, in[1] + 1>> ELSE in)
    ELSE escapeString(SubSeq(in, 1, Len(in) \div 2)) \o escapeString(SubSeq(in, Len(in) \div 2 + 1, Len(in)))

\* uint64(v.I64): the same 64 bits, unsigned
uint64(v) == <<(v[1] + Limb) % Limb, v[2], v[3], v[4]>>

\* u + (1 << 63) in 64 bits: the carry out of the top limb is lost
addTopBit(u) == <<(u[1] + Limb \div 2) % Limb, u[2], u[3], u[4]>>

\* binary.BigEndian.PutUint64
PutUint64(u) ==
    <<u[1] \div 256, u[1] % 256, u[2] \div 256, u[2] % 256,
      u[3] \div 256, u[3] % 256, u[4] \div 256, u[4] % 256>>

\* encodeValues: one cell
encodeValue(v) ==
    IF v.Type = TYPE_INT64 THEN PutUint64(addTopBit(uint64(v.I64)))
    ELSE escapeString(v.Str) \o <<0>>

\* encodeValues
RECURSIVE encodeValues(_, _)
encodeValues(out, vals) ==
    IF vals = <<>> THEN out
    ELSE encodeValues(out \o encodeValue(Head(vals)), Tail(vals))

\* bytes.Compare
RECURSIVE CompareBytes(_, _)
CompareBytes(a, b) ==
    IF a = <<>> /\ b = <<>> THEN 0
    ELSE IF a = <<>> THEN -1
    ELSE IF b = <<>> THEN 1
    ELSE IF Head(a) < Head(b) THEN -1
    ELSE IF Head(a) > Head(b) THEN 1
    ELSE CompareBytes(Tail(a), Tail(b))

\* the order of two int64 by signed value
RECURSIVE CompareLimbs(_, _)
CompareLimbs(a, b) ==
    IF a = <<>> THEN 0
    ELSE IF Head(a) < Head(b) THEN -1
    ELSE IF Head(a) > Head(b) THEN 1
    ELSE CompareLimbs(Tail(a), Tail(b))

\* the order of two cells of one type
CompareValue(a, b) ==
    IF a.Type = TYPE_INT64 THEN CompareLimbs(a.I64, b.I64) ELSE CompareBytes(a.Str, b.Str)

\* the order of two tuples of the same types: the first column that differs
RECURSIVE CompareValues(_, _)
CompareValues(a, b) ==
    IF a = <<>> THEN 0
    ELSE IF CompareValue(Head(a), Head(b)) # 0 THEN CompareValue(Head(a), Head(b))
    ELSE CompareValues(Tail(a), Tail(b))

\* the bytes of the strings, and strings up to a length
StrBytes == {0, 1, 2}
EdgeBytes == {0, 1, 2, 255}
MaxStrLen == 2
MaxLoneStrLen == 3
StrsOf(B, n) == UNION {[1..k -> B] : k \in 0..n}

\* int64 at the ends of the range, around zero and around a byte and a limb
Int64s ==
    {Int64(-32768, 0, 0, 0), Int64(-1, 65535, 65535, 65280), Int64(-1, 65535, 65535, 65535),
     ZeroInt64, Int64(0, 0, 0, 1), Int64(0, 0, 0, 256), Int64(0, 1, 0, 0),
     Int64(32767, 65535, 65535, 65535)}
FewInt64s == {Int64(-32768, 0, 0, 0), Int64(-1, 65535, 65535, 65535), ZeroInt64, Int64(32767, 65535, 65535, 65535)}

\* the tuples of one, and of two, columns
Tuples ==
    [types : {<<TYPE_INT64>>}, vals : {<<Int64Value(v)>> : v \in Int64s}]
    \cup [types : {<<TYPE_BYTES>>}, vals : {<<BytesValue(s)>> : s \in StrsOf(EdgeBytes, MaxLoneStrLen)}]
    \cup [types : {<<TYPE_BYTES, TYPE_BYTES>>},
          vals : {<<BytesValue(s), BytesValue(t)>> : s \in StrsOf(StrBytes, MaxStrLen), t \in StrsOf(StrBytes, MaxStrLen)}]
    \cup [types : {<<TYPE_BYTES, TYPE_INT64>>},
          vals : {<<BytesValue(s), Int64Value(v)>> : s \in StrsOf(StrBytes, MaxStrLen), v \in FewInt64s}]
    \cup [types : {<<TYPE_INT64, TYPE_BYTES>>},
          vals : {<<Int64Value(v), BytesValue(s)>> : s \in StrsOf(StrBytes, MaxStrLen), v \in FewInt64s}]

\* two tuples of the same column types, not yet encoded
InitEncode ==
    /\ kv = DeadKV
    /\ disk = NoDisk
    /\ pc = "args"
    /\ ref = [k \in Keys |-> NotFound]
    /\ \E a \in Tuples, b \in Tuples :
          /\ a.types = b.types
          /\ last = [op |-> "encodeValues", types |-> a.types, a |-> a.vals, b |-> b.vals,
                     outa |-> <<>>, outb |-> <<>>]
    /\ events = <<>>

\* encodeValues(nil, vals) on both tuples
EncodeValues ==
    /\ pc = "args"
    /\ pc' = "encoded"
    /\ last' = [last EXCEPT !.outa = encodeValues(<<>>, last.a), !.outb = encodeValues(<<>>, last.b)]
    /\ UNCHANGED <<kv, disk, ref, events>>

NextEncode == EncodeValues

SpecEncode == InitEncode /\ [][NextEncode]_vars

\* the four limbs a big-endian 8-byte field holds
BigEndianLimbs(b) == <<b[1] * 256 + b[2], b[3] * 256 + b[4], b[5] * 256 + b[6], b[7] * 256 + b[8]>>

\* v + 2^63, a number from 0 to 2^64 - 1
Plus2p63(v) == <<v[1] + Limb \div 2, v[2], v[3], v[4]>>

\* the int64 column alone is 8 bytes, the big-endian form of v + 2^63
Int64Form(vals, out) ==
    /\ Len(out) = 8
    /\ BigEndianLimbs(out) = Plus2p63(vals[1].I64)

\* C22: the bytewise order of the encodings of two tuples of the same column
\* types is the logical order of the tuples (int64 by signed value, strings
\* lexicographically, bytes 0x00 and 0x01 included), and an int64 v is
\* encoded as the 8-byte big-endian form of (v + 2^63) mod 2^64
C22_EncodingKeepsOrder ==
    pc = "encoded" =>
        /\ CompareBytes(last.outa, last.outb) = CompareValues(last.a, last.b)
        /\ last.types = <<TYPE_INT64>> => Int64Form(last.a, last.outa) /\ Int64Form(last.b, last.outb)

\* a string that is a prefix of the other up to an escaped byte, before a second column
C22_Witness ==
    /\ pc = "encoded"
    /\ last.types = <<TYPE_BYTES, TYPE_BYTES>>
    /\ last.a[1].Str = <<>>
    /\ last.a[2].Str = <<2>>
    /\ last.b[1].Str = <<0>>
    /\ last.outa = <<0, 2, 0>>
    /\ last.outb = <<1, 1, 0, 0>>

\* ---------------------------------------------------------------------
\* the table layer: TableNew over the rows of the key-value store

TABLE_PREFIX_MIN == 100

\* a string of n bytes c
Bytes(c, n) == [i \in 1..n |-> c]

\* the text "next_prefix"
NEXT_PREFIX == <<110, 101, 120, 116, 95, 112, 114, 101, 102, 105, 120>>

\* the prefixes of the internal tables TDEF_META and TDEF_TABLE
TDEF_META == [Prefix |-> 1, PKeys |-> 1]
TDEF_TABLE == [Prefix |-> 2, PKeys |-> 1]

TableDef(name, types, cols, pkeys) ==
    [Name |-> name, Types |-> types, Cols |-> cols, PKeys |-> pkeys, Prefix |-> 0]

\* unescapeString
RECURSIVE unescapeString(_)
unescapeString(in) ==
    IF in = <<>> THEN <<>>
    ELSE IF Head(in) = 1 /\ Len(in) >= 2
    THEN <<in[2] - 1>> \o unescapeString(Tail(Tail(in)))
    ELSE <<Head(in)>> \o unescapeString(Tail(in))

\* bytes.IndexByte(in, 0), counted from 1; 0 when there is none
IndexZero(in) == IF \E i \in 1..Len(in) : in[i] = 0 THEN CHOOSE i \in 1..Len(in) : in[i] = 0 /\ \A j \in 1..(i - 1) : in[j] # 0 ELSE 0

\* decodeValues for one string column
decodeBytes(in) == unescapeString(SubSeq(in, 1, IndexZero(in) - 1))

\* binary.BigEndian.PutUint32, binary.LittleEndian.PutUint32 and Uint32
PutUint32BE(v) == <<v \div 16777216, (v \div 65536) % 256, (v \div 256) % 256, v % 256>>
PutUint32LE(v) == <<v % 256, (v \div 256) % 256, (v \div 65536) % 256, v \div 16777216>>
Uint32LE(b) == b[1] + 256 * b[2] + 65536 * b[3] + 16777216 * b[4]

\* encodeKey
encodeKey(out, prefix, vals) == encodeValues(out \o PutUint32BE(prefix), vals)

\* the decimal digits of a number, and lists as json.Marshal writes them
RECURSIVE Decimal(_)
Decimal(n) == IF n < 10 THEN <<48 + n>> ELSE Decimal(n \div 10) \o <<48 + (n % 10)>>

RECURSIVE JoinInts(_)
JoinInts(s) ==
    IF s = <<>> THEN <<>>
    ELSE IF Len(s) = 1 THEN Decimal(s[1])
    ELSE Decimal(s[1]) \o <<44>> \o JoinInts(Tail(s))

RECURSIVE JoinStrs(_)
JoinStrs(s) ==
    IF s = <<>> THEN <<>>
    ELSE IF Len(s) = 1 THEN <<34>> \o s[1] \o <<34>>
    ELSE <<34>> \o s[1] \o <<34, 44>> \o JoinStrs(Tail(s))

\* json.Marshal(tdef): {"Name":"..","Types":[..],"Cols":[..],"PKeys":n,"Prefix":n}
Marshal(tdef) ==
    <<123, 34, 78, 97, 109, 101, 34, 58, 34>> \o tdef.Name
    \o <<34, 44, 34, 84, 121, 112, 101, 115, 34, 58, 91>> \o JoinInts(tdef.Types)
    \o <<93, 44, 34, 67, 111, 108, 115, 34, 58, 91>> \o JoinStrs(tdef.Cols)
    \o <<93, 44, 34, 80, 75, 101, 121, 115, 34, 58>> \o Decimal(tdef.PKeys)
    \o <<44, 34, 80, 114, 101, 102, 105, 120, 34, 58>> \o Decimal(tdef.Prefix)
    \o <<125>>

\* KV.Get on the rows of the store
kvHas(st, key) == \E r \in st.rows : r.key = key
kvGet(st, key) == (CHOOSE r \in st.rows : r.key = key).val

\* KV.Update with mode 0: the asserts of InsertImpl, then the row is stored
kvUpdate(st, key, val) ==
    IF st.panic THEN st
    ELSE IF Len(key) = 0 \/ Len(key) > BTREE_MAX_KEY_SIZE \/ Len(val) > BTREE_MAX_VAL_SIZE
    THEN [st EXCEPT !.panic = TRUE]
    ELSE [st EXCEPT !.rows = {r \in st.rows : r.key # key} \cup {[key |-> key, val |-> val]}]

\* tableDefCheck: the definition is bad
tableDefCheck(tdef) ==
    \/ tdef.Name = <<>>
    \/ Len(tdef.Cols) = 0
    \/ Len(tdef.Cols) # Len(tdef.Types)
    \/ ~(1 <= tdef.PKeys /\ tdef.PKeys <= Len(tdef.Cols))

\* the keys of the row of a table in @table and of next_prefix in @meta
tableKey(name) == encodeKey(<<>>, TDEF_TABLE.Prefix, <<BytesValue(name)>>)
metaKey == encodeKey(<<>>, TDEF_META.Prefix, <<BytesValue(NEXT_PREFIX)>>)

\* TableNew: the prefix the new table gets
newPrefix(st) ==
    IF kvHas(st, metaKey) THEN Uint32LE(decodeBytes(kvGet(st, metaKey))) ELSE TABLE_PREFIX_MIN

\* TableNew: the row of @meta is updated, then the definition is stored
storeDef(st, tdef, prefix) ==
    kvUpdate(kvUpdate(st, metaKey, encodeValues(<<>>, <<BytesValue(PutUint32LE(prefix + 1))>>)),
             tableKey(tdef.Name),
             encodeValues(<<>>, <<BytesValue(Marshal([tdef EXCEPT !.Prefix = prefix]))>>))

\* TableNew
TableNewOn(st, tdef) ==
    IF tableDefCheck(tdef) THEN [st |-> st, err |-> "bad table definition"]
    ELSE IF kvHas(st, tableKey(tdef.Name)) THEN [st |-> st, err |-> "table exists"]
    ELSE IF tdef.Prefix # 0 \/ (kvHas(st, metaKey) /\ newPrefix(st) <= TABLE_PREFIX_MIN)
    THEN [st |-> [st EXCEPT !.panic = TRUE], err |-> "none"]
    ELSE [st |-> storeDef(st, tdef, newPrefix(st)), err |-> "none"]

\* the definitions TableNew is called with: good ones, two of one name, bad
\* ones, one whose name makes a key of 1001 bytes and one whose JSON form is
\* longer than a value may be
ColId == <<105, 100>>
ColV == <<118>>
GoodDefs ==
    {TableDef(<<c>>, <<TYPE_INT64>>, <<ColId>>, 1) : c \in {97, 98, 99}}
    \cup {TableDef(<<97>>, <<TYPE_INT64, TYPE_BYTES>>, <<ColId, ColV>>, 1)}
BadDefs ==
    {TableDef(<<>>, <<TYPE_INT64>>, <<ColId>>, 1), TableDef(<<101>>, <<>>, <<>>, 1),
     TableDef(<<101>>, <<TYPE_INT64>>, <<ColId, ColV>>, 1), TableDef(<<101>>, <<TYPE_INT64>>, <<ColId>>, 0)}
LongNameDef == TableDef(Bytes(102, BTREE_MAX_KEY_SIZE - 4), <<TYPE_INT64>>, <<ColId>>, 1)
BigDef == TableDef(<<103>>, <<TYPE_INT64, TYPE_BYTES>>, <<ColId, Bytes(120, BTREE_MAX_VAL_SIZE)>>, 1)
TableDefs == GoodDefs \cup BadDefs \cup {LongNameDef, BigDef}

\* an empty store, no table
InitTable ==
    /\ kv = [rows |-> {}, panic |-> FALSE]
    /\ disk = NoDisk
    /\ pc = "idle"
    /\ ref = [k \in Keys |-> NotFound]
    /\ last = [op |-> "open", tdef |-> TableDef(<<>>, <<>>, <<>>, 0), ret |-> "nil", err |-> "none",
               before |-> {}]
    /\ events = <<>>

\* DB.TableNew; events lists the definitions of the calls that returned nil
TableNew(tdef) ==
    /\ pc = "idle"
    /\ kv' = TableNewOn(kv, tdef).st
    /\ pc' = IF TableNewOn(kv, tdef).st.panic THEN "crashed" ELSE "idle"
    /\ last' = [op |-> "TableNew", tdef |-> tdef,
                ret |-> IF TableNewOn(kv, tdef).st.panic THEN "pending"
                        ELSE IF TableNewOn(kv, tdef).err = "none" THEN "nil" ELSE "err",
                err |-> TableNewOn(kv, tdef).err, before |-> kv.rows]
    /\ events' = IF ~TableNewOn(kv, tdef).st.panic /\ TableNewOn(kv, tdef).err = "none"
                 THEN Append(events, tdef) ELSE events
    /\ UNCHANGED <<disk, ref>>

NextTable == \E tdef \in TableDefs : TableNew(tdef)

SpecTable == InitTable /\ [][NextTable]_vars

\* the n-th created table is stored with prefix 99 + n, and no other table is
CreatedStored ==
    /\ \A n \in 1..Len(events) :
          /\ kvHas(kv, tableKey(events[n].Name))
          /\ kvGet(kv, tableKey(events[n].Name))
                = encodeValues(<<>>, <<BytesValue(Marshal([events[n] EXCEPT !.Prefix = 99 + n]))>>)
    /\ Cardinality({r \in kv.rows : r.key # metaKey}) = Len(events)

\* next_prefix is 100 + the number of tables, four bytes, the low byte first
NextPrefixRow ==
    IF kvHas(kv, metaKey)
    THEN decodeBytes(kvGet(kv, metaKey)) = PutUint32LE(TABLE_PREFIX_MIN + Len(events))
    ELSE Len(events) = 0

\* TableNew of a name that exists returned an error and changed no row
ExistsIsError ==
    (last.op = "TableNew" /\ kvHas([rows |-> last.before], tableKey(last.tdef.Name)) /\ ~tableDefCheck(last.tdef))
        => last.ret = "err" /\ last.err = "table exists" /\ kv.rows = last.before

\* C23: for every sequence of TableNew calls the n-th table created gets
\* prefix 99 + n, no two tables share a prefix, the row next_prefix of @meta
\* holds 100 + the number of tables created as 4 little-endian bytes, and
\* TableNew of a name that exists returns an error and changes neither
\* next_prefix nor a stored definition
C23_TableNewPrefixes == CreatedStored /\ NextPrefixRow /\ ExistsIsError

\* the same, in the states no assertion has fired in
TableNewPrefixesUnlessPanic == ~kv.panic => CreatedStored /\ NextPrefixRow /\ ExistsIsError

\* three tables were created and a fourth call named one of them again
ThreeTablesAndADuplicate ==
    /\ Len(events) = 3
    /\ last.err = "table exists"
    /\ decodeBytes(kvGet(kv, metaKey)) = <<103, 0, 0, 0>>

\* ---------------------------------------------------------------------
\* the counters across a successful flushPages

\* what a flushPages that returned nil leaves: the counters are reset, the
\* root and the head of the free list are below flushed, and the meta-page
\* of the file holds them and passes the range checks of loadMetapage
FlushLeft ==
    /\ kv.n_free = 0
    /\ kv.n_append = 0
    /\ kv.updates = <<>>
    /\ kv.flushed >= last.flushed
    /\ kv.root < kv.flushed
    /\ kv.fhead < kv.flushed
    /\ FileRoot = kv.root /\ FileUsed = kv.flushed /\ FileFree = kv.fhead
    /\ 1 <= FileUsed /\ FileUsed <= disk.size \div BTREE_MAX_NODE_SIZE
    /\ FileRoot < FileUsed
    /\ FileFree < FileUsed

\* syncPages adds the n_append it finds to flushed; the fsyncs change no counter
SyncAdds ==
    /\ (pc = "synced" /\ pc' = "stored") => kv'.flushed = kv.flushed + kv.n_append
    /\ (pc = "written" /\ pc' = "synced") => kv' = kv
    /\ (pc = "stored" /\ pc' = "idle") => kv' = kv /\ FlushLeft'

\* C24 as stated: after every successful flushPages n_free = 0, n_append = 0,
\* the update map is empty, flushed is its value plus the n_append of the
\* moment flushPages was entered, root < flushed and free.head < flushed, and
\* the meta-page written passes the range checks of loadMetapage
C24_FlushAddsEntryAppend ==
    [][/\ SyncAdds
       /\ (pc = "flush" /\ pc' = "written")
             => kv'.flushed = kv.flushed /\ kv'.n_append = kv.n_append]_vars

\* C24 amended: the same, but the n_append that is added is the one syncPages
\* finds: the n_append at entry plus the pages free.Update appended
C24_FlushAdds ==
    [][/\ SyncAdds
       /\ (pc = "flush" /\ pc' = "written")
             => kv'.flushed = kv.flushed /\ kv'.n_append >= kv.n_append /\ AppendedByFreeList]_vars

\* a commit that appended a page of the tree and a page of the free list
C24_Witness ==
    /\ Succeeded
    /\ kv.flushed = last.flushed + 2
    /\ kv.fhead >= last.flushed
    /\ kv.root >= last.flushed
    /\ kv.n_append = 0
    /\ FileUsed = kv.flushed

\* ---------------------------------------------------------------------
\* pageGet inside a transaction

\* pageGet(p) returns the page that is pending at p
GetsPending(p) == ~pageGetPanics(kv, p) /\ pageGet(kv, p) = kv.updates[p]

\* pageGet(p) returns the page of the mapped file at p
GetsMapped(p) == ~pageGetPanics(kv, p) /\ p \in DOMAIN kv.mapped /\ pageGet(kv, p) = kv.mapped[p]

\* C25 as stated: pageGet(p) returns the pending buffer when p was written in
\* this transaction by pageNew, pageAppend or pageUse, whatever the mapped
\* file holds at p, and the mapped page for every other pointer below flushed
C25_PageGetReadsAll ==
    /\ \A p \in WrittenSet(kv) : GetsPending(p)
    /\ \A p \in 1..(kv.flushed - 1) : p \notin WrittenSet(kv) => GetsMapped(p)

\* C25 amended: the same, but a pointer deleted in this transaction is not
\* read from the mapped file: pageGet stops on its assertion
C25_PageGetReads ==
    /\ \A p \in WrittenSet(kv) : GetsPending(p)
    /\ \A p \in FreedSet(kv) : pageGetPanics(kv, p)
    /\ \A p \in 1..(kv.flushed - 1) : p \notin DOMAIN kv.updates => GetsMapped(p)

\* a pointer recycled from the free list is pending over the old page of its
\* slot, another page is deleted and a third is neither
C25_Witness ==
    /\ pc = "flush"
    /\ \E p \in WrittenSet(kv) : p < kv.flushed /\ p \in DOMAIN kv.mapped /\ kv.mapped[p] # kv.updates[p]
    /\ \E p \in FreedSet(kv) : p < kv.flushed
    /\ \E p \in 1..(kv.flushed - 1) : p \notin DOMAIN kv.updates

\* ---------------------------------------------------------------------
\* the pages free.Update makes for the list

\* the pending pages of the free list in a struct
ListPages(st) == {p \in WrittenSet(st) : btype(st.updates[p]) = BNODE_FREE_LIST}

\* the items of the list that pageNew has not handed out in this transaction
Remaining(st) == Range(flDump(st)) \ {flGet(st, i) : i \in 0..(st.n_free - 1)}

\* C26: free.Update does not change n_free and does not call pageNew: every
\* page the list makes for itself is at a fresh pointer flushed + n_append
\* that pageAppend gave, or, through pageUse, at a pointer that was an item
\* of the list and was not handed out
C26_ListPagesPlaced ==
    [][(pc = "flush" /\ pc' = "written") =>
          /\ kv'.n_free = kv.n_free
          /\ ListPages(kv) = {}
          /\ \A p \in ListPages(kv') :
                \/ kv.flushed + kv.n_append <= p /\ p < kv.flushed + kv'.n_append
                \/ p \in Remaining(kv)
          /\ Cardinality({p \in ListPages(kv') : p >= kv.flushed + kv.n_append})
                = kv'.n_append - kv.n_append]_vars

\* a written transaction in which the list has a page of its own at a pointer
\* that was one of its items, and one in which it has an appended page
C26_Witness ==
    /\ pc = "written"
    /\ \E p \in ListPages(kv) : p < kv.flushed /\ p \in Range(flDump(Committed)) \ Popped

C26_WitnessFresh ==
    /\ pc = "written"
    /\ \E p \in ListPages(kv) : p >= kv.flushed

\* ---------------------------------------------------------------------
\* the total free.Update writes

\* the head pages Update took off the list: they are items of the new list
Recycled == Range(FLChain(Committed)) \cap Range(flDump(kv))

\* the items Update took for the pages of the list
Reused == {p \in ListPages(kv) : p < kv.flushed}

\* free.Update(n_free, freed) has run and the list is not empty
Updated == pc = "written" /\ (kv.n_free > 0 \/ FreedSet(kv) # {}) /\ kv.fhead # 0

OldTree == Range(TreePages(Committed))

\* the pointers pageNew can have returned in this transaction
Obtained == Popped \cup (kv.flushed..(kv.flushed + kv.n_append - 1))

\* an Insert or a Delete has returned and nothing is written yet
TreeCalled == pc = "flush" /\ ~kv.panic

\* C28: the tree calls del only on pointers that are allocated, never twice
\* on one pointer and never on a pointer new did not give, and after each
\* operation the pages allocated and not deleted are the pages reachable from
\* the root
C28_AllocatedIsReachable ==
    TreeCalled =>
        /\ ~kv.baddel
        /\ FreedSet(kv) \subseteq OldTree \cup Obtained
        /\ WrittenSet(kv) \subseteq Obtained
        /\ NoDup(TreePages(kv))
        /\ Range(TreePages(kv)) = (OldTree \cup WrittenSet(kv)) \ FreedSet(kv)

\* a Delete that deleted three pages of a tree of two levels and wrote one
C28_Witness ==
    /\ TreeCalled
    /\ last.op = "del"
    /\ last.deleted
    /\ Cardinality(FreedSet(kv)) >= 3
    /\ WrittenSet(kv) # {}
    /\ Cardinality(OldTree) >= 3

\* no del of a pointer that is not allocated, in any state
NoBadDel == ~kv.baddel

\* ---------------------------------------------------------------------
\* the leaves from left to right

\* the entries of a leaf, in the order of the page
leafEntries(node) == [i \in 1..nkeys(node) |-> [key |-> getKey(node, i - 1), val |-> getVal(node, i - 1)]]

\* the entries of the leaves below a page, children taken in the order of the page
RECURSIVE leavesWalk(_, _, _), kidsLeaves(_, _, _, _)
leavesWalk(st, ptr, fuel) ==
    IF fuel > 0 /\ btype(pageGet(st, ptr)) = BTREE_NODE
    THEN kidsLeaves(st, pageGet(st, ptr), 0, fuel - 1)
    ELSE leafEntries(pageGet(st, ptr))

kidsLeaves(st, node, i, fuel) ==
    IF i >= nkeys(node) THEN <<>>
    ELSE leavesWalk(st, getPointer(node, i), fuel) \o kidsLeaves(st, node, i + 1, fuel)

Leaves(st) == IF st.root = 0 THEN <<>> ELSE leavesWalk(st, st.root, st.flushed + st.n_append)

\* the keys the harness map holds
Stored == {k \in DOMAIN ref : ref[k].found}

\* the traversal is the sentinel and then the stored keys, ascending, each once
\* and with the value the harness map has for it
SentinelThenStored(t) ==
    /\ Len(t) >= 1
    /\ t[1].key.n = 0 /\ t[1].val.n = 0
    /\ \A i \in 2..(Len(t) - 1) : BytesCompare(t[i].key, t[i + 1].key) < 0
    /\ {t[i].key : i \in 2..Len(t)} = Stored
    /\ \A i \in 2..Len(t) : t[i].key \in DOMAIN ref /\ BytesEqual(ref[t[i].key].val, t[i].val)

\* Insert or Delete has returned
TreeReturned == last.op \in {"set", "update", "del"} /\ pc \in {"flush", "idle"} /\ ~kv.panic

\* C29 as stated: after every Insert or Delete a traversal of the leaves from
\* left to right yields the sentinel and then all stored keys in strictly
\* ascending byte order, each once and with its current value
C29_LeavesAreStored == TreeReturned => SentinelThenStored(Leaves(kv))

\* the same once the tree has a root
LeavesAreStoredOnceRooted == (TreeReturned /\ kv.root # 0) => SentinelThenStored(Leaves(kv))

(* ---------------- nodeSplit3 on the pages an insert builds ---------------- *)
\* the most entries of a page before the insert
MaxSplitKeys == 3

\* a page of the tree: the i-th key is made of the byte 2*i, so the keys ascend
SplitPage(t, kl, vl) ==
    [btype |-> t,
     ents  |-> [i \in DOMAIN kl |->
                  Entry(IF t = BTREE_NODE THEN i ELSE 0, Str(2 * i, kl[i]), Str(1, vl[i]))]]

SplitLens(n, lens) == [1..n -> lens]

\* the leaves that fit a page: short and longest keys, values of several lengths
SplitLeaves ==
    UNION { { p \in { SplitPage(BTREE_LEAF, kl, vl) :
                        kl \in SplitLens(n, {1, BTREE_MAX_KEY_SIZE}),
                        vl \in SplitLens(n, {0, 63, 1000, BTREE_MAX_VAL_SIZE}) } :
              nbytes(p) <= BTREE_MAX_NODE_SIZE } : n \in 1..MaxSplitKeys }

\* the internal pages that fit a page: keys only
SplitNodes ==
    UNION { { p \in { SplitPage(BTREE_NODE, kl, [i \in 1..n |-> 0]) :
                        kl \in SplitLens(n, {1, 500, BTREE_MAX_KEY_SIZE}) } :
              nbytes(p) <= BTREE_MAX_NODE_SIZE } : n \in 1..MaxSplitKeys }

\* the pages a split child comes back as: the first keeps the separator, the
\* others start at keys between it and the next separator
SplitKid(key) == [btype |-> BTREE_LEAF, ents |-> <<Entry(0, key, Str(0, 0))>>]

SplitKids(node, idx) ==
    { <<SplitKid(getKey(node, idx))>> }
    \cup { <<SplitKid(getKey(node, idx)), SplitKid(Str(2 * idx + 3, a))>> :
             a \in {1, 500, BTREE_MAX_KEY_SIZE} }
    \cup { <<SplitKid(getKey(node, idx)), SplitKid(Str(2 * idx + 3, a)),
             SplitKid(Str(2 * idx + 3, b))>> :
             a \in {1, 500}, b \in {600, BTREE_MAX_KEY_SIZE} }

SplitInput(op, old, key, val, idx, kids) ==
    [op |-> op, old |-> old, key |-> key, val |-> val, idx |-> idx, kids |-> kids,
     scratch |-> NoNode, pieces |-> <<>>, ok |-> TRUE]

\* a page of the tree and what an insert is about to do to it
InitSplit ==
    /\ kv = Unmapped
    /\ disk = NoDisk
    /\ ref = [k \in Keys |-> NotFound]
    /\ events = <<>>
    /\ \/ /\ pc = "leaf"
          /\ \E old \in SplitLeaves, c \in 2..(2 * MaxSplitKeys + 1),
                kl \in {1, BTREE_MAX_KEY_SIZE}, vl \in {0, 63, 1000, BTREE_MAX_VAL_SIZE} :
                /\ BytesCompare(getKey(old, 0), Str(c, kl)) <= 0
                /\ last = SplitInput("leaf", old, Str(c, kl), Str(2, vl), 0, <<>>)
       \/ /\ pc = "node"
          /\ \E old \in SplitNodes :
               \E idx \in 0..(nkeys(old) - 1) :
                 \E kids \in SplitKids(old, idx) :
                    last = SplitInput("node", old, Str(0, 0), Str(0, 0), idx, kids)

SplitDone(st, scratch) ==
    /\ kv' = st
    /\ last' = [last EXCEPT !.scratch = scratch, !.pieces = nodeSplit3(scratch),
                            !.ok = nodeSplit3Ok(scratch)]
    /\ pc' = "split"
    /\ UNCHANGED <<disk, ref, events>>

SplitLeafOf(r) == ~IsNone(r.node) /\ SplitDone(r.st, r.node)

\* the leaf's turn of treeInsert, then nodeSplit3 on the page it built
SplitLeaf ==
    /\ pc = "leaf"
    /\ SplitLeafOf(treeInsert(kv, InsertReq(last.key, last.val, MODE_UPSERT), last.old))

SplitNodeOf(c) == SplitDone(c.st, c.node)

\* nodeReplaceNchild on the parent, then nodeSplit3 on the page it built
SplitNode ==
    /\ pc = "node"
    /\ SplitNodeOf(nodeReplaceNchild(kv, 2 * BTREE_MAX_NODE_SIZE, last.old, last.idx, last.kids))

NextSplit == SplitLeaf \/ SplitNode

SpecSplit == InitSplit /\ [][NextSplit]_vars

RECURSIVE JoinEnts(_)
JoinEnts(pieces) ==
    IF pieces = <<>> THEN <<>> ELSE Head(pieces).ents \o JoinEnts(Tail(pieces))

PieceFits(node) == nkeys(node) >= 1 /\ nbytes(node) <= BTREE_MAX_NODE_SIZE

\* C30: every page an insert builds (a page of the tree with one entry added or
\* replaced, or with one link replaced by up to three) is split by nodeSplit3
\* into 1 to 3 pieces, each with at least one entry and at most a page of bytes,
\* whose entries in order are the entries of the page; no assertion of
\* nodeSplit2 or nodeSplit3 fails
C30_Split3Pieces ==
    pc = "split" =>
        /\ last.ok
        /\ Len(last.pieces) \in 1..3
        /\ \A i \in 1..Len(last.pieces) :
              PieceFits(last.pieces[i]) /\ btype(last.pieces[i]) = btype(last.scratch)
        /\ JoinEnts(last.pieces) = last.scratch.ents

\* a leaf split in three: the new entry between two halves of a full page
C30_Witness ==
    /\ pc = "split"
    /\ last.op = "leaf"
    /\ Len(last.pieces) = 3
    /\ nbytes(last.scratch) > BTREE_MAX_NODE_SIZE
    /\ nbytes(last.old) <= BTREE_MAX_NODE_SIZE

(* ---------------- shouldMerge and nodeMerge on the pages a delete builds ---------------- *)
\* the most entries of a child page before the delete
MaxMergeKeys == 2

\* a leaf whose i-th key is made of the byte base + i
MergePage(base, kl, vl) ==
    [btype |-> BTREE_LEAF,
     ents  |-> [i \in DOMAIN kl |-> Entry(0, Str(base + i, kl[i]), Str(1, vl[i]))]]

MergePages(base, klens, vlens) ==
    UNION { { p \in { MergePage(base, kl, vl) :
                        kl \in SplitLens(n, klens), vl \in SplitLens(n, vlens) } :
              nbytes(p) <= BTREE_MAX_NODE_SIZE } : n \in 1..MaxMergeKeys }

\* the siblings: none, or a page from nearly empty to full
MergeSiblings(base) ==
    {NoNode} \cup MergePages(base, {1, BTREE_MAX_KEY_SIZE}, {63, BTREE_MAX_VAL_SIZE})

\* the child the delete goes into
MergeChildren ==
    MergePages(10, {1, BTREE_MAX_KEY_SIZE}, {0, 63, 1000, BTREE_MAX_VAL_SIZE})

MergeLink(p, child) == IF IsNone(child) THEN <<>> ELSE <<Entry(p, getKey(child, 0), Str(0, 0))>>

\* the parent over the left sibling (page 1), the child (page 2), the right sibling (page 3)
MergeParent(left, child, right) ==
    [btype |-> BTREE_NODE,
     ents  |-> MergeLink(1, left) \o MergeLink(2, child) \o MergeLink(3, right)]

MergeStore(left, child, right) ==
    [Unmapped EXCEPT !.flushed = 4, !.updates = (1 :> left) @@ (2 :> child) @@ (3 :> right)]

\* a parent, its children, and the key of the child that is deleted
InitMerge ==
    /\ disk = NoDisk
    /\ ref = [k \in Keys |-> NotFound]
    /\ events = <<>>
    /\ pc = "delete"
    /\ \E left \in MergeSiblings(0), child \in MergeChildren, right \in MergeSiblings(20) :
         \E at \in 0..(nkeys(child) - 1) :
            /\ kv = MergeStore(left, child, right)
            /\ last = [op |-> "shouldMerge", node |-> MergeParent(left, child, right),
                       idx |-> IF IsNone(left) THEN 0 ELSE 1, key |-> getKey(child, at),
                       left |-> left, right |-> right,
                       updated |-> NoNode, dir |-> 0, sibling |-> NoNode, merged |-> NoNode]

MergedPage(m, updated) ==
    IF m.dir < 0 THEN nodeMerge(m.sibling, updated)
    ELSE IF m.dir > 0 THEN nodeMerge(updated, m.sibling)
    ELSE NoNode

MergeAnswered(st, m, updated) ==
    /\ kv' = st
    /\ last' = [last EXCEPT !.updated = updated, !.dir = m.dir, !.sibling = m.sibling,
                            !.merged = MergedPage(m, updated)]
    /\ pc' = "merged"
    /\ UNCHANGED <<disk, ref, events>>

MergeAfterDel(st, updated) ==
    MergeAnswered(st, shouldMerge(st, last.node, last.idx, updated), updated)

MergeOf(r) ==
    /\ ~IsNone(r.node)
    /\ MergeAfterDel(pageDel(r.st, getPointer(last.node, last.idx)), r.node)

\* nodeDelete up to the merge: treeDelete on the child, del, shouldMerge, nodeMerge
ShouldMerge ==
    /\ pc = "delete"
    /\ MergeOf(treeDelete(kv, pageGet(kv, getPointer(last.node, last.idx)), last.key))

NextMerge == ShouldMerge

SpecMerge == InitMerge /\ [][NextMerge]_vars

MergeFits(sibling, updated) ==
    nbytes(sibling) + nbytes(updated) - HEADER <= BTREE_MAX_NODE_SIZE

\* the answer the rule gives: -1 left, +1 right, 0 no merge
MergeRule ==
    IF nbytes(last.updated) > BTREE_MAX_NODE_SIZE \div 4 THEN 0
    ELSE IF last.idx > 0 /\ MergeFits(last.left, last.updated) THEN -1
    ELSE IF last.idx + 1 < nkeys(last.node) /\ MergeFits(last.right, last.updated) THEN 1
    ELSE 0

MergedOf(dir) ==
    IF dir < 0 THEN last.left.ents \o last.updated.ents
    ELSE last.updated.ents \o last.right.ents

\* C31: shouldMerge answers no-merge when the updated child is larger than a
\* quarter page; otherwise the left sibling if there is one and the two fit a
\* page, else the right sibling under the same test, else no-merge; the page
\* nodeMerge then builds holds the entries of both and fits a page
C31_MergeRule ==
    pc = "merged" =>
        /\ last.dir = MergeRule
        /\ last.dir < 0 => last.sibling = last.left
        /\ last.dir > 0 => last.sibling = last.right
        /\ last.dir = 0 => IsNone(last.sibling) /\ IsNone(last.merged)
        /\ last.dir # 0 =>
              /\ nbytes(last.merged) <= BTREE_MAX_NODE_SIZE
              /\ last.merged.ents = MergedOf(last.dir)

\* a right merge that fills the page exactly, the left sibling being too large
C31_Witness ==
    /\ pc = "merged"
    /\ last.dir = 1
    /\ last.idx = 1
    /\ ~MergeFits(last.left, last.updated)
    /\ nbytes(last.merged) = BTREE_MAX_NODE_SIZE

(* ---------------- nodeLookupLE on sorted pages ---------------- *)
\* the most keys of a page that is searched
MaxLookupKeys == 4
\* the keys are the empty key and runs of one byte
MaxLookupByte == 3
MaxLookupLen == 2

LookupKeys == {Str(0, 0)} \cup { Str(c, n) : c \in 1..MaxLookupByte, n \in 1..MaxLookupLen }

\* the keys at indexes 1 and up ascend; the key at index 0 is any key
LookupAscending(keys) ==
    \A i \in 2..(Len(keys) - 1) : BytesCompare(keys[i], keys[i + 1]) < 0

LookupPage(t, keys) ==
    [btype |-> t, ents |-> [i \in DOMAIN keys |-> Entry(0, keys[i], Str(0, 0))]]

LookupPages ==
    UNION { { LookupPage(t, keys) :
                t \in {BTREE_NODE, BTREE_LEAF},
                keys \in { ks \in [1..n -> LookupKeys] : LookupAscending(ks) } } :
            n \in 1..MaxLookupKeys }

\* the page with another key at index 0
WithFirstKey(node, k) == [node EXCEPT !.ents[1].key = k]

InitLookup ==
    /\ kv = Unmapped
    /\ disk = NoDisk
    /\ ref = [k \in Keys |-> NotFound]
    /\ events = <<>>
    /\ pc = "lookup"
    /\ \E node \in LookupPages, key \in LookupKeys :
          last = [op |-> "nodeLookupLE", node |-> node, key |-> key, ret |-> 0, rets |-> {}]

\* nodeLookupLE(node, key), and the same call on the pages that differ in key 0
LookupLE ==
    /\ pc = "lookup"
    /\ pc' = "found"
    /\ last' = [last EXCEPT !.ret = nodeLookupLE(last.node, last.key),
                            !.rets = { nodeLookupLE(WithFirstKey(last.node, k), last.key) :
                                         k \in LookupKeys }]
    /\ UNCHANGED <<kv, disk, ref, events>>

NextLookup == LookupLE

SpecLookup == InitLookup /\ [][NextLookup]_vars

\* the indexes from 1 whose key is not above the target
LookupLEs == { i \in 1..(nkeys(last.node) - 1) : BytesCompare(getKey(last.node, i), last.key) <= 0 }

MaxAppend == 4

\* the chunks after k doublings of the first mapping
RECURSIVE ChunksAfter(_)
ChunksAfter(k) ==
    IF k = 0 THEN <<INITIAL_MMAP_SIZE>>
    ELSE Append(ChunksAfter(k - 1), ChunkEnd(ChunksAfter(k - 1), k) * BTREE_MAX_NODE_SIZE)

MappedPages(k) == ChunkEnd(ChunksAfter(k), k + 1)

\* the page counts next to the end of a mapping doubled k times, and those of a new file
ExtendFlushed(k) ==
    { f \in 1..MappedPages(k) : f <= MaxAppend \/ f >= MappedPages(k) - MaxAppend }

PendingPage == nodeAppendKV(setHeader(BTREE_LEAF, 1), 0, 0, Str(0, 0), Str(0, 0))

\* a store in the middle of a call: flushed pages behind it, n appended pages pending
ExtendStore(k, f, filePages, n) ==
    [Unmapped EXCEPT !.flushed = f, !.n_append = n,
                     !.updates = [p \in f..(f + n - 1) |-> PendingPage],
                     !.file_size = filePages * BTREE_MAX_NODE_SIZE,
                     !.mmap_size = MappedPages(k) * BTREE_MAX_NODE_SIZE,
                     !.chunks = ChunksAfter(k)]

InitExtend ==
    /\ disk = NoDisk
    /\ ref = [k \in Keys |-> NotFound]
    /\ events = <<>>
    /\ pc = "flush"
    /\ \E k \in 0..1 :
         \E f \in ExtendFlushed(k), n \in 0..MaxAppend, more \in 0..MaxAppend :
            /\ kv = ExtendStore(k, f, f + more, n)
            /\ last = [op |-> "writePages", file_size |-> (f + more) * BTREE_MAX_NODE_SIZE,
                       mmap_size |-> MappedPages(k) * BTREE_MAX_NODE_SIZE]

\* writePages: the free list, extendFile, extendMmap, the copies
ExtendAndWrite ==
    /\ pc = "flush"
    /\ Written(writePages(kv, <<>>))
    /\ UNCHANGED <<disk, ref, last, events>>

NextExtend == ExtendAndWrite

SpecExtend == InitExtend /\ [][NextExtend]_vars

Required(st) == (st.flushed + st.n_append) * BTREE_MAX_NODE_SIZE

PageMultiple(n) == n % BTREE_MAX_NODE_SIZE = 0

\* C33: when writePages has succeeded the file and the mapping cover
\* flushed + n_append pages, every pending page lies in a mapped chunk and no
\* 'bad pointer' assertion fired; file_size, mmap_size and the chunk lengths are
\* multiples of the page size, and file_size is not below what it was
C33_ExtendCovers ==
    pc \in {"written", "crashed"} =>
        /\ pc = "written"
        /\ ~kv.panic
        /\ kv.file_size >= Required(kv)
        /\ kv.mmap_size >= Required(kv)
        /\ \A p \in WrittenSet(kv) : MappedPointer(kv, p)
        /\ PageMultiple(kv.file_size) /\ PageMultiple(kv.mmap_size)
        /\ \A i \in DOMAIN kv.chunks : PageMultiple(kv.chunks[i])
        /\ kv.file_size >= last.file_size

\* the file grew by an eighth and the mapping was doubled in the same call
C33_Witness ==
    /\ pc = "written"
    /\ kv.mmap_size = 2 * last.mmap_size
    /\ kv.file_size > last.file_size + BTREE_MAX_NODE_SIZE
    /\ kv.n_append > 0
    /\ Len(kv.chunks) = 2

(* ---------------- the pointers pageNew and pageAppend return ---------------- *)
\* the pages of the committed tree and of the committed free-list chain
CommittedPages == Range(TreePages(Committed)) \cup Range(FLChain(Committed))

\* the tree operation of a call has run, or writePages has run after it
InTransaction == pc \in {"flush", "written"} /\ ~kv.panic

\* the pages pageNew gave to the tree, pageAppend to the free list
Allocated(st) == {p \in WrittenSet(st) : p >= st.flushed \/ btype(st.updates[p]) # BNODE_FREE_LIST}

\* C34: within a transaction pageNew and pageAppend return neither 0 nor a
\* pointer that is already in the pending set, and no page they returned is a
\* page of the committed tree or of the committed free-list chain
C34_FreshPointers ==
    /\ ~kv.badnew
    /\ InTransaction =>
          /\ 0 \notin DOMAIN kv.updates
          /\ Allocated(kv) \cap CommittedPages = {}

\* a page taken from the free list and an appended page in one transaction,
\* over a committed tree and a committed free list
C34_Witness ==
    /\ InTransaction
    /\ kv.n_free > 0
    /\ kv.n_append > 0
    /\ Cardinality(Range(TreePages(Committed))) >= 2
    /\ FLChain(Committed) # <<>>
    /\ \E p \in Allocated(kv) : p < kv.flushed

(* ---------------- pageGet on pages marked free ---------------- *)
\* the pages of the free list that the next free.Get or free.Update reads
ListRead == Range(FLChain(kv))

\* C35: no operation calls pageGet on a pointer that is marked free in the
\* pending set: 'page is null' never fires in the descent of the tree, in the
\* sibling reads of shouldMerge or in the reads of the free list, and no page
\* of the free-list chain is marked free
C35_NoNullGet ==
    /\ ~kv.nullget
    /\ ListRead \cap FreedSet(kv) = {}

\* a Delete marked the child and a sibling free, read the other sibling, and
\* the free list holds pages
C35_Witness ==
    /\ pc = "flush"
    /\ last.op = "del"
    /\ last.deleted
    /\ Cardinality(FreedSet(kv)) >= 3
    /\ ListRead # {}
    /\ ~kv.panic

(* ---------------- KV.Get between whole calls ---------------- *)
\* no call starts once this many pages are flushed
MaxGetPages == 5

CanGet == pc = "idle" /\ ~kv.panic

\* KV.Set, from call to return
GetSet(key, val) ==
    /\ CanGet
    /\ kv.flushed < MaxGetPages
    /\ CycleSetDone(InsertImpl(kv, InsertReq(key, val, MODE_UPSERT)), key, val)

\* KV.Del, from call to return
GetDel(key) ==
    /\ CanGet
    /\ kv.flushed < MaxGetPages
    /\ CycleDelDone(Delete(kv, key), key)

GetAnswered(key, r) ==
    /\ last' = [Op("get", key, r.val, 0, FALSE, FALSE, ref) EXCEPT
                   !.ret = IF r.found THEN "found" ELSE "not found"]
    /\ UNCHANGED <<kv, disk, pc, ref, events>>

\* KV.Get: any key, the empty key too
Get(key) ==
    /\ CanGet
    /\ GetAnswered(key, TreeGet(kv, key))

NextGet ==
    \/ \E k \in Keys, v \in Vals : GetSet(k, v)
    \/ \E k \in Keys : GetDel(k)
    \/ \E k \in Keys \cup {Str(0, 0)} : Get(k)

SpecGet == Init /\ [][NextGet]_vars

GetFound == last.op = "get" /\ last.ret = "found"

\* C36: Get reports found only for a key that Set or Update stored and Del has
\* not deleted since, with the value stored; the empty key is never found
C36_GetOnlyStored ==
    GetFound =>
        /\ last.key \in DOMAIN ref
        /\ ref[last.key].found
        /\ BytesEqual(ref[last.key].val, last.val)

\* apart from the empty key, Get finds exactly the keys stored and not deleted
GetFindsStored ==
    (last.op = "get" /\ last.key \in DOMAIN ref) =>
        /\ (last.ret = "found") = ref[last.key].found
        /\ last.ret = "found" => BytesEqual(ref[last.key].val, last.val)

\* Get of the empty key on a tree that holds a key answers found
SentinelFound ==
    /\ GetFound
    /\ last.key = Str(0, 0)
    /\ kv.root # 0
    /\ \E k \in DOMAIN ref : ref[k].found

(* ---------------- the height of the tree ---------------- *)
\* the depths at which the walk from ptr ends in a page that is not internal
RECURSIVE leafDepths(_, _, _, _)
leafDepths(st, ptr, d, fuel) ==
    IF fuel = 0 \/ btype(pageGet(st, ptr)) # BTREE_NODE THEN {d}
    ELSE UNION { leafDepths(st, getPointer(pageGet(st, ptr), i), d + 1, fuel - 1) :
                   i \in 0..(nkeys(pageGet(st, ptr)) - 1) }

LeafDepths(st) ==
    IF st.root = 0 THEN {} ELSE leafDepths(st, st.root, 1, st.flushed + st.n_append)

\* the number of levels, when all leaves are at one depth
Height(st) == IF LeafDepths(st) = {} THEN 0 ELSE CHOOSE d \in LeafDepths(st) : TRUE

Balanced(st) == Cardinality(LeafDepths(st)) = 1

\* an Insert or a Delete ran on a tree and no assertion fired
TreeStep ==
    /\ pc = "idle"
    /\ pc' \in {"flush", "idle"}
    /\ kv.root # 0
    /\ kv' # kv
    /\ last'.op \in {"set", "update", "del"}
    /\ ~kv'.panic

\* the page treeInsert / treeDelete returns for the root in this step
RootInserted ==
    treeInsert(kv, InsertReq(last'.key, last'.val, last'.mode), pageGet(kv, kv.root)).node

RootDeleted == treeDelete(kv, pageGet(kv, kv.root), last'.key).node

\* InsertImpl finds the page of the root split in 2 or 3
RootSplits ==
    /\ last'.op \in {"set", "update"}
    /\ ~IsNone(RootInserted)
    /\ Len(nodeSplit3(RootInserted)) >= 2

\* Delete finds an internal root page with a single key
RootUnwraps ==
    /\ last'.op = "del"
    /\ ~IsNone(RootDeleted)
    /\ btype(RootDeleted) = BTREE_NODE
    /\ nkeys(RootDeleted) = 1

HeightStep ==
    TreeStep =>
        /\ Balanced(kv')
        /\ Height(kv') = Height(kv) + (IF RootSplits THEN 1 ELSE 0) - (IF RootUnwraps THEN 1 ELSE 0)

\* the keys of a load that makes the tree three levels high: longest keys,
\* one or two records to a leaf, five links to an internal page
MaxHeightKeys == 6

HeightKeys == {Str(c, BTREE_MAX_KEY_SIZE) : c \in 1..MaxHeightKeys}

\* the first and the third key share a leaf with the sentinel; the others fill one
HeightVal(key) ==
    IF key.c \in {1, 3} THEN Str(1, 1016) ELSE Str(1, BTREE_MAX_VAL_SIZE)

\* the load stores the third key before the second, the others in ascending order
HeightNext(n) == Str(IF n = 2 THEN 3 ELSE IF n = 3 THEN 2 ELSE n, BTREE_MAX_KEY_SIZE)

InitHeight == InitOn(HeightKeys)

HeightLoaded == last.calls >= MaxHeightKeys

HeightSetDone(r, key) ==
    Returned(flushPages(r.st, Ascending(FreedSet(r.st))),
             Op("set", key, HeightVal(key), MODE_UPSERT, r.added, FALSE,
                [ref EXCEPT ![key] = Found(HeightVal(key))]),
             [ref EXCEPT ![key] = Found(HeightVal(key))])

\* KV.Set, from call to return: the next key of the load
HeightSet(key) ==
    /\ pc = "idle"
    /\ ~HeightLoaded
    /\ key = HeightNext(last.calls + 1)
    /\ HeightSetDone(InsertImpl(kv, InsertReq(key, HeightVal(key), MODE_UPSERT)), key)

\* KV.Del, from call to return: after the load the keys are deleted in any order
HeightDel(key) ==
    /\ pc = "idle"
    /\ HeightLoaded
    /\ ref[key].found
    /\ BulkDelDone(Delete(kv, key), key)

NextHeight ==
    \/ \E k \in HeightKeys : HeightSet(k)
    \/ \E k \in HeightKeys : HeightDel(k)

SpecHeight == InitHeight /\ [][NextHeight]_vars

\* C37: after every Insert or Delete all leaves are at one depth; the height
\* grows by one exactly when the root page splits and shrinks by one exactly
\* when Delete is left with an internal root of a single key
C37_HeightRule == [][HeightStep]_vars

\* a Delete brought a tree of three levels down to two, all leaves at one depth
C37_Witness ==
    /\ pc = "idle"
    /\ last.op = "del"
    /\ last.deleted
    /\ Height(kv) = 2
    /\ Balanced(kv)
    /\ Cardinality({k \in DOMAIN ref : ref[k].found}) >= 3
    /\ ~kv.panic

(* ---------------- the iterator ---------------- *)
\* BIter: the pages from the root to a leaf and the index in each of them
\* (levels are counted from 1 here, from 0 in the code)
RECURSIVE seekFrom(_, _, _, _, _)
seekFrom(st, ptr, key, it, fuel) ==
    IF ptr = 0 \/ fuel = 0 THEN it
    ELSE LET node == pageGet(st, ptr)
             idx  == nodeLookupLE(node, key)
             it1  == [path |-> Append(it.path, node), pos |-> Append(it.pos, idx)]
         IN  seekFrom(st, IF btype(node) = BTREE_NODE THEN getPointer(node, idx) ELSE 0,
                      key, it1, fuel - 1)

SeekLE(st, key) == seekFrom(st, st.root, key, [path |-> <<>>, pos |-> <<>>], st.flushed)

IterAllZero(it) == \A l \in DOMAIN it.pos : it.pos[l] = 0

Valid(it) ==
    /\ ~IterAllZero(it)
    /\ it.pos[Len(it.pos)] < nkeys(it.path[Len(it.path)])

\* the tail of iterNext: the page below level l is read again, at its first index
iterNextKid(st, it, l) ==
    IF l < Len(it.pos)
    THEN [it EXCEPT !.path[l + 1] = pageGet(st, getPointer(it.path[l], it.pos[l])),
                    !.pos[l + 1] = 0]
    ELSE it

RECURSIVE iterNext(_, _, _)
iterNext(st, it, l) ==
    IF it.pos[l] + 1 < nkeys(it.path[l])
    THEN iterNextKid(st, [it EXCEPT !.pos[l] = @ + 1], l)
    ELSE IF l > 1
    THEN iterNextKid(st, iterNext(st, it, l - 1), l)
    ELSE [it EXCEPT !.pos[Len(it.pos)] = @ + 1]

\* the tail of iterPrev: the page below level l is read again, at its last index
iterPrevKid(st, it, l) ==
    IF l < Len(it.pos)
    THEN [it EXCEPT !.path[l + 1] = pageGet(st, getPointer(it.path[l], it.pos[l])),
                    !.pos[l + 1] =
                        U16(nkeys(pageGet(st, getPointer(it.path[l], it.pos[l]))) - 1)]
    ELSE it

RECURSIVE iterPrev(_, _, _)
iterPrev(st, it, l) ==
    IF it.pos[l] > 0
    THEN iterPrevKid(st, [it EXCEPT !.pos[l] = @ - 1], l)
    ELSE IF l > 1
    THEN iterPrevKid(st, iterPrev(st, it, l - 1), l)
    ELSE it

IterOp(op, key, it) ==
    [op |-> op, key |-> key, path |-> it.path, pos |-> it.pos, calls |-> last.calls]

\* BTree.SeekLE on the committed tree, between two calls
IterSeek(key) ==
    /\ pc = "idle"
    /\ kv.root # 0
    /\ pc' = "iter"
    /\ last' = IterOp("seek", key, SeekLE(kv, key))
    /\ UNCHANGED <<kv, disk, ref, events>>

IterPastEnd(it) == it.pos[Len(it.pos)] >= nkeys(it.path[Len(it.path)])

\* BIter.Next, also once on an iterator that is past the last key
IterNext ==
    /\ pc = "iter"
    /\ last.pos[Len(last.pos)] <= nkeys(last.path[Len(last.path)])
    /\ last' = IterOp("next", last.key, iterNext(kv, last, Len(last.path)))
    /\ UNCHANGED <<kv, disk, pc, ref, events>>

\* BIter.Prev on an iterator that is at a key or at the first position
IterPrev ==
    /\ pc = "iter"
    /\ ~IterPastEnd(last)
    /\ last' = IterOp("prev", last.key, iterPrev(kv, last, Len(last.path)))
    /\ UNCHANGED <<kv, disk, pc, ref, events>>

\* the iterator is dropped
IterDone ==
    /\ pc = "iter"
    /\ pc' = "idle"
    /\ last' = IterOp("done", last.key, [path |-> <<>>, pos |-> <<>>])
    /\ UNCHANGED <<kv, disk, ref, events>>

NextIter ==
    \/ \E k \in HeightKeys : HeightSet(k)
    \/ \E k \in HeightKeys : HeightDel(k)
    \/ \E k \in HeightKeys \cup {Str(0, 0)} : IterSeek(k)
    \/ IterNext
    \/ IterPrev
    \/ IterDone

SpecIter == InitHeight /\ [][NextIter]_vars

\* the key the iterator is at; the sentinel is the empty key
IterKey(it) == getKey(it.path[Len(it.path)], it.pos[Len(it.pos)])

StoredKeys == {k \in DOMAIN ref : ref[k].found}
KeysAbove(key) == {k \in StoredKeys : BytesCompare(k, key) > 0}
KeysBelow(key) == {k \in StoredKeys : BytesCompare(k, key) < 0}
LeastOf(S) == CHOOSE k \in S : \A j \in S : BytesCompare(k, j) <= 0
GreatestOf(S) == CHOOSE k \in S : \A j \in S : BytesCompare(k, j) >= 0

NextStep == pc = "iter" /\ last'.op = "next"
PrevStep == pc = "iter" /\ last'.op = "prev"

\* Next moves to the least stored key above the current one, and to an
\* invalid iterator when there is none or when the iterator was past the end
NextMoves ==
    NextStep =>
        IF IterPastEnd(last) \/ KeysAbove(IterKey(last)) = {}
        THEN ~Valid(last')
        ELSE Valid(last') /\ IterKey(last') = LeastOf(KeysAbove(IterKey(last)))

\* C38: in a tree of any height the Next calls after SeekLE visit the stored
\* keys above the start in ascending order, each once; after the last key the
\* iterator is invalid and stays invalid
C38_NextAscends == [][NextMoves]_vars

\* the same, for trees of one or two levels
NextAscendsLow == [][pc = "iter" /\ Len(last.path) <= 2 => NextMoves]_vars

\* Prev moves from a stored key to the greatest stored key below it, or to
\* the sentinel when there is none; at the sentinel it changes no index
PrevMoves ==
    PrevStep =>
        IF IterAllZero(last) \/ KeysBelow(IterKey(last)) = {}
        THEN IterAllZero(last') /\ ~Valid(last')
        ELSE Valid(last') /\ IterKey(last') = GreatestOf(KeysBelow(IterKey(last)))

\* C39: in a tree of any height Prev never moves to a larger key: from a
\* stored key it moves to the greatest smaller entry, and at the first position
\* (all indexes 0) it leaves every index as it is and the iterator invalid
C39_PrevDescends == [][PrevMoves]_vars

\* the same, for trees of one or two levels
PrevDescendsLow == [][pc = "iter" /\ Len(last.path) <= 2 => PrevMoves]_vars

(* ---------------- the two cases of nodeReplaceNchild ---------------- *)
\* the pages a child comes back as when its first key did not change: a leaf
\* of one or two entries, or an internal page
ReplaceKids(key) ==
    { [btype |-> BTREE_LEAF, ents |-> <<Entry(0, key, Str(3, 63))>>],
      [btype |-> BTREE_LEAF,
       ents  |-> <<Entry(0, key, Str(3, 1000)),
                   Entry(0, Str(2 * MaxSplitKeys + 2, 500), Str(3, 0))>>],
      [btype |-> BTREE_NODE,
       ents  |-> <<Entry(21, key, Str(0, 0)),
                   Entry(22, Str(2 * MaxSplitKeys + 2, 1), Str(0, 0))>>] }

\* a store whose file ends after the children of the parent
ReplaceStore == [Unmapped EXCEPT !.flushed = MaxSplitKeys + 2]

\* an internal page of the tree, one of its links, the page that replaces the
\* child and the size of the buffer the caller passes (nodeInsert two pages,
\* nodeDelete one)
InitReplace ==
    /\ kv = ReplaceStore
    /\ disk = NoDisk
    /\ ref = [k \in Keys |-> NotFound]
    /\ events = <<>>
    /\ pc = "replace"
    /\ \E old \in SplitNodes, cap \in {BTREE_MAX_NODE_SIZE, 2 * BTREE_MAX_NODE_SIZE} :
         \E idx \in 0..(nkeys(old) - 1) :
           \E kid \in ReplaceKids(getKey(old, idx)) :
              last = [op |-> "replace", old |-> old, idx |-> idx, kid |-> kid, cap |-> cap,
                      common |-> NoNode, general |-> NoNode]

ReplacedBy(c, g) ==
    /\ kv' = c.st
    /\ last' = [last EXCEPT !.common = c.node, !.general = g.node]
    /\ pc' = "replaced"
    /\ UNCHANGED <<disk, ref, events>>

\* nodeReplaceNchild with one child that keeps the key, which takes the common
\* case, and the general case on the same arguments
ReplaceOne ==
    /\ pc = "replace"
    /\ ReplacedBy(nodeReplaceNchild(kv, last.cap, last.old, last.idx, <<last.kid>>),
                  replaceGeneral(kv, last.cap, last.old, last.idx, <<last.kid>>))

NextReplace == ReplaceOne

SpecReplace == InitReplace /\ [][NextReplace]_vars

SameEntries(a, b) ==
    /\ nkeys(a) = nkeys(b)
    /\ \A i \in 0..(nkeys(a) - 1) :
          /\ getPointer(a, i) = getPointer(b, i)
          /\ BytesEqual(getKey(a, i), getKey(b, i))
          /\ BytesEqual(getVal(a, i), getVal(b, i))

\* C40: with one replacement child whose first key is the parent's key at idx,
\* the page of the common case (the parent copied, pointer idx replaced) has
\* the type, the number of keys, the keys, the values and the pointers of the
\* page the general case builds from the same arguments
C40_CommonIsGeneral ==
    pc = "replaced" =>
        /\ btype(last.common) = btype(last.general)
        /\ SameEntries(last.common, last.general)

\* a link in the middle of a parent replaced by a newly allocated page
C40_Witness ==
    /\ pc = "replaced"
    /\ nkeys(last.old) >= 3
    /\ last.idx = 1
    /\ btype(last.kid) = BTREE_NODE
    /\ getPointer(last.common, last.idx) # getPointer(last.old, last.idx)
    /\ getPointer(last.common, last.idx) = MaxSplitKeys + 2
    /\ nbytes(last.common) = nbytes(last.old)

\* the internal pages of the tree hold empty values, which is what the
\* general case writes beside the key of a child
NodeValuesEmpty ==
    (pc = "idle" /\ ~kv.panic) =>
        \A i \in 1..Len(TreePages(kv)) :
            btype(pageGet(kv, TreePages(kv)[i])) = BTREE_NODE =>
                \A j \in 0..(nkeys(pageGet(kv, TreePages(kv)[i])) - 1) :
                    getVal(pageGet(kv, TreePages(kv)[i]), j) = Str(0, 0)

============================================================================
